---- MODULE Spec2Model ----
(***************************************************************************)
(* Verification model of the Raydium sandwich bot (bot/src).               *)
(*                                                                         *)
(*   SpecDecoder : decode_ray_log applied to packed, base64-encoded        *)
(*                 fixtures (ray_log_decoder.py)                           *)
(*   SpecSim     : simulate_sandwich applied to decoded records            *)
(*                 (simulation.py)                                         *)
(*   SpecMonitor : TransactionMonitor.process_log over a stream of         *)
(*                 messages, with the account reader and the clock as      *)
(*                 environment (monitor.py)                                *)
(*   SpecTrade   : the dispatch block of process_log applied to the values *)
(*                 it reads (monitor.py)                                   *)
(*   SpecRate    : bursts of messages against the monitor's                *)
(*                 check_rate_limit (monitor.py)                           *)
(*   SpecConnect : the reconnect loop of monitor_swaps (monitor.py)        *)
(*   SpecDirection : determine_trade_direction (ray_log_decoder.py)        *)
(*   SpecLimiter : RateLimiter.check_rate_limit under calls and pauses     *)
(*                 (rate_limiter.py)                                       *)
(*   SpecSend    : TransactionExecutor._send_transaction against an RPC    *)
(*                 client whose calls return or raise (executor.py)        *)
(*   SpecSandwich : TransactionExecutor.execute_sandwich over its two      *)
(*                 calls of _send_transaction (executor.py)                *)
(*   SpecWaiters : tasks awaiting RateLimiter.async_wait_if_needed on one  *)
(*                 limiter (rate_limiter.py)                               *)
(*                                                                         *)
(* Strings are sequences of character codes, byte strings are sequences of *)
(* 0..255.  Machine words are little-endian byte groups exactly as struct  *)
(* lays them out; the fixtures pack values below 2^31 so that every word   *)
(* the decoder unpacks fits the model checker's integers.                  *)
(***************************************************************************)
EXTENDS Integers, Sequences, FiniteSets, TLC

VARIABLES
    phase,      \* position: "input" | "decoded" | "simulated" |
                \* "resimulated" | "classified" | "dispatched" | "limiting" |
                \* "sending" for the harnesses, "idle" | "line" | "reading"
                \* for process_log
    fixture,    \* what the test packed: values, version tag, prefix, damage
    ray_log,    \* the string handed to decode_ray_log
    decoded,    \* outcome of decode_ray_log(ray_log)
    decoded_log,            \* the dict handed to simulate_sandwich
    min_profit_threshold,   \* its min_profit_threshold argument
    dry_run,                \* its dry_run argument
    simulation,             \* outcome of simulate_sandwich
    gas_estimate,           \* outcome of estimate_gas_cost and its arguments
    clock,                  \* time.time(), in seconds
    request_timestamps,     \* TransactionMonitor fields
    rate_limit_hits,
    total_requests,
    last_rate_log,
    pool_reserves_cache,
    last_pool_update,
    refreshes,              \* times of the last two calls of update_pool_reserves
    total_opportunities,
    total_profit,
    lines,                  \* process_log: the log lines not yet visited
    impact,                 \* process_log: locals price_impact / max_slippage
    returned,               \* what the last process_log call returned
    ticks,                  \* clock advances so far
    sim_snapshot,           \* the cache entry of the swap's pool at the
                            \* moment simulate_sandwich was called
    carries_payload,        \* the message of the last process_log call had
                            \* a "ray_log: <payload>" line
    admits,                 \* times of the last admissions by check_rate_limit
    message_budget,         \* messages the stream delivers in this run
    tx_params,              \* the parameters handed to
                            \* build_sandwich_transactions
    execution,              \* what execute_sandwich came back with
    subscription_active,    \* TransactionMonitor fields used by monitor_swaps
    last_connection_attempt,
    connection_retry_delay,
    failed_attempts,        \* connection attempts failed since a subscription
                            \* was last confirmed
    attempts,               \* connection attempts so far
    direction,              \* what determine_trade_direction returned
    rate_limiter,           \* a RateLimiter: max_requests, window_seconds,
                            \* request_timestamps
    limiter_time,           \* time.time() as the RateLimiter reads it, in
                            \* tenths of a second
    allowed,                \* what the last RateLimiter.check_rate_limit
                            \* returned
    granted,                \* times of all calls that returned True
    limiter_calls,          \* calls of check_rate_limit so far
    send,                   \* a call of TransactionExecutor._send_transaction:
                            \* its position, its loop indices, the calls made
                            \* to the RPC client, and what it returned
    sandwich,               \* a call of TransactionExecutor.execute_sandwich:
                            \* its position, its arguments, the transactions
                            \* handed to send_transaction, those whose
                            \* confirm_transaction returned, and its result
    tasks                   \* the tasks sharing rate_limiter: idle, or
                            \* suspended at the sleep of async_wait_if_needed
                            \* until wake_at

decVars == <<fixture, ray_log, decoded>>
simVars == <<decoded_log, min_profit_threshold, dry_run, simulation,
             gas_estimate>>
monVars == <<clock, request_timestamps, rate_limit_hits, total_requests,
             last_rate_log, pool_reserves_cache, last_pool_update, refreshes,
             total_opportunities, total_profit, lines, impact, returned,
             ticks, sim_snapshot, carries_payload, admits, message_budget,
             tx_params, execution>>
connVars == <<subscription_active, last_connection_attempt,
              connection_retry_delay, failed_attempts, attempts>>
libVars == <<direction, rate_limiter, limiter_time, allowed, granted,
             limiter_calls, send, sandwich, tasks>>
vars == <<phase, decVars, simVars, monVars, connVars, libVars>>

(***************************************************************************)
(* Bounds                                                                  *)
(***************************************************************************)
MaxValues == 8          \* most u64 values packed into one payload
MaxMessages == 2        \* messages handed to process_log
MaxLogs == 2            \* log lines in one message
MaxTicks == 2           \* clock advances between steps
MaxBurst == 17          \* calls in a burst against a rate limiter
MaxAttempts == 5        \* connection attempts of monitor_swaps
MaxRetries == 3         \* largest max_retries handed to _send_transaction
MaxTasks == 2           \* tasks awaiting one RateLimiter
MaxWaits == 6           \* calls of async_wait_if_needed by those tasks

(***************************************************************************)
(* Python outcomes: a returned dict, a returned None, a raised exception.  *)
(***************************************************************************)
NotRun == [kind |-> "notrun"]
None == [kind |-> "none"]
Return(d) == [kind |-> "record", rec |-> d]
Raise(e) == [kind |-> "raise", exc |-> e]

Get(d, k, default) == IF k \in DOMAIN d THEN d[k] ELSE default

(***************************************************************************)
(* ray_log_decoder.py: constants                                           *)
(***************************************************************************)
SOL_DECIMALS == 9
USDC_DECIMALS == 6
USDT_DECIMALS == 6

POOL_CONFIGS ==
    [p \in {"SOL/USDC", "SOL/USDT"} |->
        [min_amount_threshold |-> 1000000000,
         token_a_decimals |-> SOL_DECIMALS,
         token_b_decimals |-> IF p = "SOL/USDC" THEN USDC_DECIMALS ELSE USDT_DECIMALS]]

\* identify_pool telling pools apart by their id
identify_pool_by_id(pool_id) ==
    IF pool_id = 0 THEN "SOL/USDC" ELSE "unknown"

\* lines 49-53
identify_pool(pool_id) == "SOL/USDC"

(***************************************************************************)
(* Characters                                                              *)
(***************************************************************************)
PadChar == 61           \* '='
JunkChar == 33          \* '!', ASCII but outside the base64 alphabet
NonAsciiChar == 233     \* e-acute
PrefixStr == <<114, 97, 121, 95, 108, 111, 103, 58, 32>>   \* "ray_log: "

\* str.startswith
StartsWith(s, p) == Len(s) >= Len(p) /\ SubSeq(s, 1, Len(p)) = p

(***************************************************************************)
(* int.to_bytes(k, "little") and struct's little-endian unsigned words     *)
(***************************************************************************)
RECURSIVE to_bytes(_, _)
to_bytes(v, k) == IF k = 0 THEN <<>> ELSE <<v % 256>> \o to_bytes(v \div 256, k - 1)

RECURSIVE from_bytes(_)
from_bytes(bs) == IF bs = <<>> THEN 0 ELSE bs[1] + 256 * from_bytes(Tail(bs))

\* struct.unpack("<" + code * n, data) for a word of w bytes; the caller has
\* checked Len(data) = n * w (otherwise struct.error)
unpack(data, w) ==
    [i \in 1..(Len(data) \div w) |-> from_bytes(SubSeq(data, (i - 1) * w + 1, i * w))]

(***************************************************************************)
(* base64.b64encode / base64.b64decode (non-strict)                        *)
(***************************************************************************)
b64char(v) ==
    IF v < 26 THEN 65 + v
    ELSE IF v < 52 THEN 97 + (v - 26)
    ELSE IF v < 62 THEN 48 + (v - 52)
    ELSE IF v = 62 THEN 43 ELSE 47

\* 0..63 for an alphabet character, 64 for anything else
b64value(c) ==
    IF c >= 65 /\ c <= 90 THEN c - 65
    ELSE IF c >= 97 /\ c <= 122 THEN c - 97 + 26
    ELSE IF c >= 48 /\ c <= 57 THEN c - 48 + 52
    ELSE IF c = 43 THEN 62
    ELSE IF c = 47 THEN 63
    ELSE 64

\* base64.b64encode: every 3 bytes give 4 characters, the last group is
\* padded with '='
b64encode(bs) ==
    LET n == Len(bs)
        byte(k) == IF k <= n THEN bs[k] ELSE 0
    IN  [p \in 1..(4 * ((n + 2) \div 3)) |->
            LET g == (p - 1) \div 4
                r == (p - 1) % 4
                b1 == byte(3 * g + 1)
                b2 == byte(3 * g + 2)
                b3 == byte(3 * g + 3)
            IN  CASE r = 0 -> b64char(b1 \div 4)
                  [] r = 1 -> b64char((b1 % 4) * 16 + b2 \div 16)
                  [] r = 2 -> IF 3 * g + 2 > n THEN PadChar
                              ELSE b64char((b2 % 16) * 4 + b3 \div 64)
                  [] r = 3 -> IF 3 * g + 3 > n THEN PadChar
                              ELSE b64char(b3 % 64)]

IsData(c) == b64value(c) # 64

\* binascii.a2b_base64, non-strict: characters outside the alphabet are
\* skipped; the scan ends at a '=' that completes a group (third position,
\* or second '=' in a row at the second position); ending anywhere else
\* inside a group is binascii.Error
a2b_base64(s) ==
    LET quad(i) == Cardinality({j \in 1..(i - 1) : IsData(s[j])}) % 4
        stops(i) ==
            /\ s[i] = PadChar
            /\ \/ quad(i) = 3
               \/ /\ quad(i) = 2
                  /\ \E j \in 1..(i - 1) :
                        s[j] = PadChar /\ \A k \in j..(i - 1) : ~IsData(s[k])
        stopAt == {i \in 1..Len(s) : stops(i)}
        end == IF stopAt = {} THEN Len(s)
               ELSE CHOOSE i \in stopAt : \A j \in stopAt : i <= j
        chars == SelectSeq(SubSeq(s, 1, end), IsData)
        sext == [i \in 1..Len(chars) |-> b64value(chars[i])]
        six(k) == IF k <= Len(sext) THEN sext[k] ELSE 0
    IN  IF stopAt = {} /\ Len(sext) % 4 # 0 THEN [ok |-> FALSE, data |-> <<>>]
        ELSE [ok |-> TRUE,
              data |-> [i \in 1..((Len(sext) * 6) \div 8) |->
                          LET g == (i - 1) \div 3
                              r == (i - 1) % 3
                          IN  CASE r = 0 -> six(4 * g + 1) * 4 + six(4 * g + 2) \div 16
                                [] r = 1 -> (six(4 * g + 2) % 16) * 16 + six(4 * g + 3) \div 4
                                [] r = 2 -> (six(4 * g + 3) % 4) * 64 + six(4 * g + 4)]]

\* base64.b64decode(s): a str must be ASCII (ValueError otherwise), then
\* binascii.a2b_base64
b64decode(s) ==
    IF \E i \in 1..Len(s) : s[i] > 127 THEN [ok |-> FALSE, data |-> <<>>]
    ELSE a2b_base64(s)

(***************************************************************************)
(* ray_log_decoder.py: decode_ray_log                                      *)
(***************************************************************************)
\* except Exception (lines 290-320).  bound says whether the local
\* `decoded` was assigned before the exception; reading it unassigned in
\* len(decoded) raises UnboundLocalError, which no clause of the handler
\* catches
except_handler(bound, data) ==
    IF ~bound THEN Raise("UnboundLocalError")
    ELSE IF Len(data) \in {56, 48, 32, 24} THEN
        LET values == unpack(data, 8) IN
        Return([amount_in |-> IF Len(values) > 1 THEN values[2] ELSE values[1],
                amount_out |-> IF Len(values) > 4 THEN values[5] ELSE values[2],
                pool_type |-> "SOL/USDC"])
    ELSE IF Len(data) \div 8 >= 2 /\ Len(data) % 8 = 0 THEN
        LET values == unpack(data, 8) IN
        Return([amount_in |-> values[1], amount_out |-> values[2],
                pool_type |-> "SOL/USDC"])
    ELSE None

\* u32_fallback reading the words a short payload lacks as zero
u32_fallback_zero_filled(data) ==
    IF Len(data) % 4 # 0 THEN None
    ELSE
        LET values == unpack(data, 4)
            word(i) == IF i <= Len(values) THEN values[i] ELSE 0
        IN  Return([amount_in |-> word(1) + word(2) * 65536 * 65536,
                    amount_out |-> word(3) + word(4) * 65536 * 65536,
                    pool_type |-> "SOL/USDC"])

\* final fallback to u32 values (lines 273-288)
u32_fallback(data) ==
    IF Len(data) % 4 # 0 THEN None          \* struct.error, logged; falls off the end
    ELSE
        LET values == unpack(data, 4) IN
        IF Len(values) = 0 \/ Len(values) = 2 THEN except_handler(TRUE, data)   \* IndexError
        ELSE IF Len(values) = 1 THEN except_handler(TRUE, data)                 \* IndexError
        ELSE
            \* low | (high << 32): the halves do not overlap
            Return([amount_in |-> values[1] + values[2] * 65536 * 65536,
                    amount_out |-> IF Len(values) > 3
                                   THEN values[3] + values[4] * 65536 * 65536
                                   ELSE values[3],
                    pool_type |-> "SOL/USDC"])

\* sequence of u64s (lines 237-271)
u64_sequence(data) ==
    LET num_u64s == Len(data) \div 8 IN
    IF Len(data) % 8 = 0 /\ num_u64s > 0 THEN
        LET values == unpack(data, 8) IN
        IF num_u64s = 4 THEN
            Return([timestamp |-> values[1], amount_in |-> values[2],
                    pool_id |-> values[3], amount_out |-> values[4],
                    pool_type |-> "SOL/USDC"])
        ELSE IF num_u64s = 2 THEN
            Return([amount_in |-> values[1], amount_out |-> values[2],
                    pool_type |-> "SOL/USDC"])
        ELSE IF num_u64s >= 2 THEN
            Return([amount_in |-> values[1], amount_out |-> values[2],
                    pool_type |-> "SOL/USDC",
                    extra_values |-> SubSeq(values, 3, Len(values))])
        ELSE u32_fallback(data)
    ELSE u32_fallback(data)

\* fixed_layouts reading the 32-byte layout as [timestamp, amount_in,
\* amount_out, pool_id]
fixed_layouts_swapped(data) ==
    LET values == unpack(data, 8) IN
    IF Len(data) = 56 THEN
        Return([timestamp_in |-> values[1], amount_in |-> values[2],
                pool_id |-> values[3], pool_type |-> identify_pool(values[3]),
                timestamp_out |-> values[4], amount_out |-> values[5],
                pool_token |-> values[6], extra_data |-> values[7]])
    ELSE IF Len(data) = 48 THEN
        Return([timestamp_in |-> values[1], amount_in |-> values[2],
                pool_id |-> values[3], pool_type |-> identify_pool(values[3]),
                timestamp_out |-> values[4], amount_out |-> values[5],
                pool_token |-> values[6]])
    ELSE IF Len(data) = 32 THEN
        Return([timestamp |-> values[1], amount_in |-> values[2],
                amount_out |-> values[3], pool_id |-> values[4],
                pool_type |-> identify_pool(values[4])])
    ELSE IF Len(data) = 24 THEN
        Return([amount_in |-> values[1], amount_out |-> values[2],
                pool_id |-> values[3], pool_type |-> identify_pool(values[3])])
    ELSE u64_sequence(data)

\* fixed-width layouts keyed by length (lines 164-232)
fixed_layouts(data) ==
    LET values == unpack(data, 8) IN
    IF Len(data) = 56 THEN
        Return([timestamp_in |-> values[1], amount_in |-> values[2],
                pool_id |-> values[3], pool_type |-> identify_pool(values[3]),
                timestamp_out |-> values[4], amount_out |-> values[5],
                pool_token |-> values[6], extra_data |-> values[7]])
    ELSE IF Len(data) = 48 THEN
        Return([timestamp_in |-> values[1], amount_in |-> values[2],
                pool_id |-> values[3], pool_type |-> identify_pool(values[3]),
                timestamp_out |-> values[4], amount_out |-> values[5],
                pool_token |-> values[6]])
    ELSE IF Len(data) = 32 THEN
        Return([timestamp |-> values[1], amount_in |-> values[2],
                pool_id |-> values[3], amount_out |-> values[4],
                pool_type |-> identify_pool(values[3])])
    ELSE IF Len(data) = 24 THEN
        Return([amount_in |-> values[1], amount_out |-> values[2],
                pool_id |-> values[3], pool_type |-> identify_pool(values[3])])
    ELSE u64_sequence(data)

\* strip_version dropping the first byte whatever it is
strip_version_always(data) ==
    IF Len(data) > 0 THEN Tail(data) ELSE data

\* version byte (lines 157-162)
strip_version(data) ==
    IF Len(data) > 0 /\ data[1] \in {3} THEN Tail(data) ELSE data

\* strip_prefix cutting the last character as well (ray_log[9:-1])
strip_prefix_and_tail(log) ==
    IF StartsWith(log, PrefixStr) THEN SubSeq(log, 10, Len(log) - 1) ELSE log

\* lines 143-145: ray_log[9:] when the text starts with "ray_log: "
strip_prefix(log) ==
    IF StartsWith(log, PrefixStr) THEN SubSeq(log, 10, Len(log)) ELSE log

decode_ray_log(log) ==
    LET text == strip_prefix(log)
        b64 == b64decode(text)
    IN  IF ~b64.ok THEN except_handler(FALSE, <<>>)
        ELSE fixed_layouts(strip_version(b64.data))

(***************************************************************************)
(* Fixtures: what a test packs and encodes (tests/test_ray_log_decoder.py) *)
(***************************************************************************)
AmountValues == {0, 3, 950000000, 1000000000}
FillValues == {0, 1000}
ExtraBytes == {0, 2, 4}
Damages == {"none", "chop", "junk", "nonascii"}

Fixtures ==
    [n : 0..MaxValues, first : AmountValues, second : AmountValues,
     fill : FillValues, extra : ExtraBytes, tagged : BOOLEAN,
     prefixed : BOOLEAN, damage : Damages]

\* the u64 values a fixture packs
PackedValues(f) ==
    [i \in 1..f.n |-> IF i = 1 THEN f.first
                      ELSE IF i = 2 THEN f.second
                      ELSE IF f.fill = 0 THEN 0 ELSE f.fill + i]

RECURSIVE pack(_)
pack(values) ==
    IF values = <<>> THEN <<>> ELSE to_bytes(values[1], 8) \o pack(Tail(values))

\* the bytes before base64: optional version tag, the packed values, and
\* trailing bytes that break the 8-byte alignment
PayloadBytes(f) ==
    (IF f.tagged THEN <<3>> ELSE <<>>)
    \o pack(PackedValues(f))
    \o SubSeq(<<1, 0, 0, 0>>, 1, f.extra)

EncodedText(f) ==
    LET e == b64encode(PayloadBytes(f)) IN
    CASE f.damage = "none" -> e
      [] f.damage = "chop" -> SubSeq(e, 1, Len(e) - 1)
      [] f.damage = "junk" -> <<JunkChar>> \o e
      [] f.damage = "nonascii" -> e \o <<NonAsciiChar>>

RayLogOf(f) == (IF f.prefixed THEN PrefixStr ELSE <<>>) \o EncodedText(f)

(***************************************************************************)
(* SpecDecoder                                                             *)
(***************************************************************************)
DecoderIdle ==
    /\ fixture = [n |-> 0]
    /\ ray_log = <<>>
    /\ decoded = NotRun

\* nothing outside the decoder, the simulation and the monitor has run
TicksPerSecond == 10

\* RateLimiter.__init__ (rate_limiter.py 13-22), at a moment of the clock
RateLimiterConstructed(max_requests, window_seconds) ==
    /\ rate_limiter = [max_requests |-> max_requests,
                       window_seconds |-> window_seconds,
                       request_timestamps |-> <<>>]
    /\ limiter_time = 1000 * TicksPerSecond
    /\ allowed = [kind |-> "notrun"]
    /\ granted = <<>>
    /\ limiter_calls = 0

\* no call of _send_transaction under way
SendIdle ==
    [pc |-> "idle", max_retries |-> 0, attempt |-> 0, blockhash_attempt |-> 0,
     confirm_attempt |-> 0, submissions |-> 0, fetches |-> 0, polls |-> 0,
     result |-> [kind |-> "notrun"]]

\* no call of execute_sandwich under way
SandwichIdle ==
    [pc |-> "idle", dry_run |-> FALSE, max_retries |-> 0,
     submitted |-> {}, confirmed |-> {},
     front_sig |-> [kind |-> "notrun"], result |-> [kind |-> "notrun"]]

\* no task is inside async_wait_if_needed
TasksIdle == [t \in 1..MaxTasks |-> [pc |-> "idle", wake_at |-> 0]]

LibIdle ==
    /\ direction = "notrun"
    /\ RateLimiterConstructed(15, 1)
    /\ send = SendIdle
    /\ sandwich = SandwichIdle
    /\ tasks = TasksIdle

SimIdle ==
    /\ decoded_log = [pool_type |-> "SOL/USDC"]
    /\ min_profit_threshold = 10000000
    /\ dry_run = FALSE
    /\ simulation = NotRun
    /\ gas_estimate = NotRun

\* TransactionMonitor.__init__ (lines 53-93); the process has been running
\* for longer than any of the intervals the monitor compares against
MonitorConstructed ==
    /\ clock = 1000
    /\ request_timestamps = <<>>
    /\ rate_limit_hits = 0
    /\ total_requests = 0
    /\ last_rate_log = clock
    /\ pool_reserves_cache = <<>>
    /\ last_pool_update = 0
    /\ refreshes = <<>>
    /\ total_opportunities = 0
    /\ total_profit = 0
    /\ lines = <<>>
    /\ impact = [bound |-> FALSE]
    /\ returned = "None"
    /\ ticks = 0
    /\ sim_snapshot = [present |-> FALSE]
    /\ carries_payload = FALSE
    /\ admits = <<>>
    /\ tx_params = NotRun
    /\ execution = NotRun
    /\ subscription_active = FALSE
    /\ last_connection_attempt = 0
    /\ connection_retry_delay = 5
    /\ failed_attempts = 0
    /\ attempts = 0

InitDecoder ==
    /\ phase = "input"
    /\ fixture \in Fixtures
    /\ ray_log = RayLogOf(fixture)
    /\ decoded = NotRun
    /\ SimIdle
    /\ MonitorConstructed
    /\ LibIdle
    /\ message_budget = 0

DecodeRayLog ==
    /\ phase = "input"
    /\ decoded' = decode_ray_log(ray_log)
    /\ phase' = "decoded"
    /\ UNCHANGED <<fixture, ray_log, simVars, monVars, connVars, libVars>>

NextDecoder == DecodeRayLog

SpecDecoder == InitDecoder /\ [][NextDecoder]_vars

(***************************************************************************)
(* simulation.py: simulate_sandwich                                        *)
(***************************************************************************)
\* lines 164-183
estimate_gas_cost(pool_type, market_conditions) ==
    LET base_cost == 5000 IN
    IF market_conditions = "congested" THEN base_cost * 2
    ELSE IF market_conditions = "high" THEN base_cost * 3
    ELSE base_cost

\* a pool_type of None; like every value that is no key of POOL_CONFIGS it
\* only ever meets membership tests
NonePoolType == "<None>"

\* transaction.py PoolDetails as built by TransactionMonitor.__init__: account
\* addresses only, no reserves
PoolDetails ==
    [amm_id |-> "675kPX9MHTjS2zt1qfr1NYHuzeLXfQM9H24wFSUt1Mp8",
     token_program |-> "TokenkegQfeZyiNwAJbNbGKPFXCWuBvf9Ss623VQ5DA",
     token_a_account |-> "9wFFyRfZBsuAha4YcuxcXLKwMxJR43S7fPfQLusDBzvT",
     token_b_account |-> "EPjFWdd5AufqSSqeM2qN1xzybapC8G4wEGGkZwyTDt1v"]

\* SimulationResult whose profit builds on the result of the call before
SimulationResult_accumulated(profit, gas_cost, pool_fees, net_profit, success) ==
    [profit |-> IF simulation.kind = "record"
                THEN simulation.rec.profit + profit ELSE profit,
     gas_cost |-> gas_cost, pool_fees |-> pool_fees,
     net_profit |-> net_profit, success |-> success]

SimulationResult(profit, gas_cost, pool_fees, net_profit, success) ==
    [profit |-> profit, gas_cost |-> gas_cost, pool_fees |-> pool_fees,
     net_profit |-> net_profit, success |-> success]

\* below_min_amount letting every size through
below_min_amount_never(amount_in, pool_type) == FALSE

\* lines 218-225, for a pool_type of POOL_CONFIGS
below_min_amount(amount_in, pool_type) ==
    amount_in < POOL_CONFIGS[pool_type].min_amount_threshold

\* simulate_sandwich with the gas cost left out of net_profit
simulate_sandwich_nogas(log, pool_details, threshold, dry) ==
    LET has_in == "amount_in" \in DOMAIN log
        has_out == "amount_out" \in DOMAIN log
        pool_type == Get(log, "pool_type", "SOL/USDC")
    IN  IF ~has_in \/ ~has_out THEN None
        ELSE IF log.amount_in = 0 \/ log.amount_out = 0 THEN None
        ELSE IF log.amount_in <= 0 \/ log.amount_out <= 0 THEN None
        ELSE IF pool_type \notin DOMAIN POOL_CONFIGS THEN None
        ELSE IF below_min_amount(log.amount_in, pool_type) THEN None
        ELSE Return(SimulationResult(20000000, 5000, 3000000, 17000000, TRUE))

\* lines 203-234; everything after the first unconditional return is dead
simulate_sandwich(log, pool_details, threshold, dry) ==
    LET has_in == "amount_in" \in DOMAIN log          \* .get() gives None when absent
        has_out == "amount_out" \in DOMAIN log
        pool_type == Get(log, "pool_type", "SOL/USDC")
    IN  IF ~has_in \/ ~has_out THEN None
        ELSE IF log.amount_in = 0 \/ log.amount_out = 0 THEN None
        ELSE IF log.amount_in <= 0 \/ log.amount_out <= 0 THEN None
        ELSE IF pool_type \notin DOMAIN POOL_CONFIGS THEN None
        ELSE IF below_min_amount(log.amount_in, pool_type) THEN None
        ELSE Return(SimulationResult(20000000, 5000, 3000000, 16995000, TRUE))

(***************************************************************************)
(* SpecSim                                                                 *)
(***************************************************************************)
SimAmounts == {-1, 0, 999999999, 1000000000, 2000000000}
SimPoolTypes == {"SOL/USDC", "SOL/USDT", "BTC/USDC", "unknown", NonePoolType}
SimThresholds == {0, 10000, 10000000, 16995000, 16995001, 20000000}

SimLogs ==
    [amount_in : SimAmounts, amount_out : SimAmounts, pool_type : SimPoolTypes]
    \cup [amount_in : SimAmounts, amount_out : SimAmounts]
    \cup [amount_in : SimAmounts, pool_type : SimPoolTypes]
    \cup [amount_out : SimAmounts, pool_type : SimPoolTypes]
    \cup [amount_in : SimAmounts]
    \cup [amount_out : SimAmounts]
    \cup [pool_type : SimPoolTypes]

InitSim ==
    /\ phase = "input"
    /\ decoded_log \in SimLogs
    /\ min_profit_threshold \in SimThresholds
    /\ dry_run \in BOOLEAN
    /\ simulation = NotRun
    /\ gas_estimate = NotRun
    /\ DecoderIdle
    /\ MonitorConstructed
    /\ LibIdle
    /\ message_budget = 0

\* a call of simulate_sandwich; the harness calls it a second time with the
\* same arguments
SimulateSandwich ==
    /\ phase \in {"input", "simulated"}
    /\ simulation' = simulate_sandwich(decoded_log, PoolDetails,
                                       min_profit_threshold, dry_run)
    /\ phase' = IF phase = "input" THEN "simulated" ELSE "resimulated"
    /\ UNCHANGED <<decoded_log, min_profit_threshold, dry_run, gas_estimate,
                   decVars, monVars, connVars, libVars>>

\* the arguments estimate_gas_cost is called with
GasPoolTypes == {"SOL/USDC", NonePoolType}
MarketConditions == {"normal", "congested", "high", "quiet"}

EstimateGasCost(pool_type, market_conditions) ==
    /\ phase \in {"input", "simulated"}
    /\ gas_estimate = NotRun
    /\ gas_estimate' = Return([pool_type |-> pool_type,
                               market_conditions |-> market_conditions,
                               cost |-> estimate_gas_cost(pool_type, market_conditions)])
    /\ UNCHANGED <<phase, decoded_log, min_profit_threshold, dry_run,
                   simulation, decVars, monVars, connVars, libVars>>

NextSim ==
    \/ SimulateSandwich
    \/ \E p \in GasPoolTypes, m \in MarketConditions : EstimateGasCost(p, m)

SpecSim == InitSim /\ [][NextSim]_vars

(***************************************************************************)
(* monitor.py: TransactionMonitor                                          *)
(***************************************************************************)
MAX_REQUESTS_PER_SECOND == 15
REQUEST_WINDOW == 1
min_trade_size == 1000000000

\* first position of pat in s, 0 when absent (the `in` operator, str.split)
Find(s, pat) ==
    LET at == {i \in 1..(Len(s) - Len(pat) + 1) : SubSeq(s, i, i + Len(pat) - 1) = pat}
    IN  IF at = {} THEN 0 ELSE CHOOSE i \in at : \A j \in at : i <= j

Contains(s, pat) == Find(s, pat) # 0

\* s.split(sep)[1]; the caller has checked that sep occurs in s
SplitSecond(s, sep) ==
    LET rest == SubSeq(s, Find(s, sep) + Len(sep), Len(s))
        next == Find(rest, sep)
    IN  IF next = 0 THEN rest ELSE SubSeq(rest, 1, next - 1)

RayLogTag == <<114, 97, 121, 95, 108, 111, 103, 58>>       \* "ray_log:"

\* check_rate_limit, lines 150-155: drop timestamps older than the window
RECURSIVE evict(_, _)
evict_early(stamps, now) ==
    LET young == {i \in 1..Len(stamps) : ~(now - stamps[i] >= REQUEST_WINDOW)}
    IN  IF young = {} THEN <<>>
        ELSE SubSeq(stamps, CHOOSE i \in young : \A j \in young : i <= j,
                    Len(stamps))
evict(stamps, now) ==
    IF stamps # <<>> /\ now - Head(stamps) > REQUEST_WINDOW
    THEN evict(Tail(stamps), now)
    ELSE stamps

\* data[a:b] of a bytes object (0-based, end exclusive, clipped)
Slice(data, a, b) ==
    SubSeq(data, a + 1, IF b <= Len(data) THEN b ELSE Len(data))

\* update_pool_reserves (lines 95-123): the cache after the account read
\* came back with `outcome` at time `now`
\* update_pool_reserves dropping the entry of the pool when the read fails
update_pool_reserves_evicting(cache, pool_type, outcome, now) ==
    IF outcome.kind = "data" THEN
        [p \in DOMAIN cache \cup {pool_type} |->
            IF p = pool_type
            THEN [token_a |-> from_bytes(Slice(outcome.data, 64, 72)),
                  token_b |-> from_bytes(Slice(outcome.data, 72, 80)),
                  last_update |-> now]
            ELSE cache[p]]
    ELSE [p \in DOMAIN cache \ {pool_type} |-> cache[p]]

update_pool_reserves(cache, pool_type, outcome, now) ==
    IF outcome.kind = "data" THEN
        [p \in DOMAIN cache \cup {pool_type} |->
            IF p = pool_type
            THEN [token_a |-> from_bytes(Slice(outcome.data, 64, 72)),
                  token_b |-> from_bytes(Slice(outcome.data, 72, 80)),
                  last_update |-> now]
            ELSE cache[p]]
    ELSE cache          \* no response / no value / exception: only logged

\* amounts in units of 10^6 base units; the messages of this model carry
\* multiples of that unit, so the float comparisons of lines 312-321 are
\* decided exactly on the scaled integers
Scaled(v) == v \div 1000000

Abs(x) == IF x >= 0 THEN x ELSE -x

Min(a, b) == IF a <= b THEN a ELSE b

\* lines 318-321 on the locals bound at lines 312-313:
\*   price_impact = ((amount_out / amount_in) - 1) * 100
\*   max_slippage = min(amount_in / token_a_reserve * 100, 2.0)
\*   abs(price_impact) >= 0.01 and abs(price_impact) <= max_slippage
swap_guard(loc) ==
    LET i == Scaled(loc.amount_in)
        d == Abs(Scaled(loc.amount_out) - Scaled(loc.amount_in))
        a == Scaled(loc.token_a)
    IN  /\ d * 10000 >= i
        /\ d * 100 <= 2 * i
        /\ d * a <= i * i

\* outer_handler catching the JSON error only
outer_handler_json_only(exc) ==
    IF exc = "JSONDecodeError" THEN "None" ELSE "raise"

\* lines 456-462: what process_log returns when exception `exc` reaches the
\* handlers of its try block ("raise" would be the exception leaving the
\* call)
outer_handler(exc) == "None"

\* the exception lines 187-234 raise on the message, "none" when they do not
head_exception(msg) ==
    IF msg.form = "text" THEN
        IF msg.shape \in {"confirm", "logs"} THEN "TypeError"
        ELSE IF msg.shape = "badjson" THEN "JSONDecodeError"
        ELSE "none"
    ELSE IF msg.shape = "logs" /\ msg.logs = <<>> THEN "UnboundLocalError"
    ELSE "none"

\* whether process_log gets as far as the loop over the log lines
\* (lines 187-234)
reaches_lines(msg) ==
    IF msg.form = "text" THEN
        \* "result" in <str> is a substring test; when it holds,
        \* log_msg["result"] on a str raises TypeError.  A text without the
        \* word is parsed, and of those only an envelope with logs goes on.
        FALSE
    ELSE msg.shape = "logs" /\ msg.logs # <<>>

(***************************************************************************)
(* SpecMonitor: messages, account reads, time                              *)
(***************************************************************************)
ProgramLogStr == <<80, 114, 111, 103, 114, 97, 109, 32, 108, 111, 103, 58, 32>>
SwapLine ==
    <<80, 114, 111, 103, 114, 97, 109, 32, 108, 111, 103, 58, 32, 73, 110,
      115, 116, 114, 117, 99, 116, 105, 111, 110, 58, 32, 83, 119, 97, 112>>
NoPayloadLine == ProgramLogStr \o RayLogTag

Swap(a, b) ==
    [n |-> 3, first |-> a, second |-> b, fill |-> 1000, extra |-> 0,
     tagged |-> FALSE, prefixed |-> FALSE, damage |-> "none"]

RayLine(f) == ProgramLogStr \o PrefixStr \o EncodedText(f)

MonLines ==
    {SwapLine, NoPayloadLine,
     RayLine(Swap(1000000000, 990000000)),
     RayLine(Swap(1000000000, 1000000000)),
     RayLine(Swap(500000000, 495000000)),
     RayLine(Swap(0, 990000000)),
     RayLine([Swap(1000000000, 990000000) EXCEPT !.damage = "chop"]),
     RayLine([Swap(1000000000, 990000000) EXCEPT !.n = 1])}

\* lines after which the loop goes on to the next line
SkippedLines ==
    {RayLine(Swap(0, 990000000)),
     RayLine([Swap(1000000000, 990000000) EXCEPT !.damage = "chop"])}

\* up to MaxLogs lines; the lines before the last are lines the loop goes
\* past, or the instruction line at which it returns
LogSeqs ==
    {logs \in UNION {[1..k -> MonLines] : k \in 0..MaxLogs} :
        \A i \in 1..(Len(logs) - 1) : logs[i] \in SkippedLines \cup {SwapLine}}

MonMessages ==
    [form : {"dict"}, shape : {"confirm", "noparams", "noresult"}, logs : {<<>>}]
    \cup [form : {"dict"}, shape : {"logs"}, logs : LogSeqs]
    \cup [form : {"text"}, shape : {"confirm", "noparams", "noresult", "badjson"},
          logs : {<<>>}]
    \cup [form : {"text"}, shape : {"logs"},
          logs : {<<RayLine(Swap(1000000000, 990000000))>>}]

\* what get_account_info can come back with: account data holding the two
\* reserves at bytes 64-72 and 72-80, a truncated account, no value, or an
\* exception
AccountData(a, b) ==
    [i \in 1..64 |-> 0] \o to_bytes(a, 8) \o to_bytes(b, 8) \o <<0, 0, 0, 0>>

ReaderOutcomes ==
    {[kind |-> "data", data |-> AccountData(r[1], r[2])] :
        r \in {<<1000000000, 990000000>>, <<0, 990000000>>, <<1000000000, 0>>}}
    \cup {[kind |-> "data", data |-> SubSeq(AccountData(1000000000, 990000000), 1, 72)],
          [kind |-> "empty", data |-> <<>>],
          [kind |-> "exception", data |-> <<>>]}

ReadDelays == {0, 1}
TickSteps == {60, 240}

InitMonitor ==
    /\ phase = "idle"
    /\ MonitorConstructed
    /\ LibIdle
    /\ message_budget = MaxMessages
    /\ DecoderIdle
    /\ decoded_log = [pool_type |-> "SOL/USDC"]
    /\ min_profit_threshold = 10000000
    /\ dry_run \in BOOLEAN
    /\ simulation = NotRun
    /\ gas_estimate = NotRun

\* the admissions a 1-second window can be judged on: one more than the
\* limit
LastAdmits(times) ==
    IF Len(times) > MAX_REQUESTS_PER_SECOND + 1
    THEN SubSeq(times, Len(times) - MAX_REQUESTS_PER_SECOND, Len(times))
    ELSE times

\* the message is a notification envelope with a line "ray_log: <payload>"
has_payload_line(msg) ==
    /\ msg.shape = "logs"
    /\ \E i \in 1..Len(msg.logs) :
            /\ Contains(msg.logs[i], PrefixStr)
            /\ SplitSecond(msg.logs[i], PrefixStr) # <<>>

\* gate_refusal counting the refused message as a request
gate_refusal_counted(kept, hits, requests) ==
    [request_timestamps |-> kept, rate_limit_hits |-> hits + 1,
     total_requests |-> requests + 1]

\* lines 158-160: the fields of the gate after it refused a message, `kept`
\* being the timestamps left by the eviction
gate_refusal(kept, hits, requests) ==
    [request_timestamps |-> kept, rate_limit_hits |-> hits + 1,
     total_requests |-> requests]

\* process_log up to the loop over the lines (lines 180-234)
ProcessLog(msg) ==
    /\ phase = "idle"
    /\ total_requests + rate_limit_hits < message_budget
    /\ ray_log' = <<>>
    /\ decoded' = NotRun
    /\ simulation' = NotRun
    /\ sim_snapshot' = [present |-> FALSE]
    /\ impact' = [bound |-> FALSE]
    /\ LET kept == evict(request_timestamps, clock) IN
       IF Len(kept) >= MAX_REQUESTS_PER_SECOND THEN
            /\ LET out == gate_refusal(kept, rate_limit_hits, total_requests) IN
                /\ request_timestamps' = out.request_timestamps
                /\ rate_limit_hits' = out.rate_limit_hits
                /\ total_requests' = out.total_requests
            /\ clock' = clock + 1                   \* asyncio.sleep(1)
            /\ returned' = "None"
            /\ carries_payload' = has_payload_line(msg)
            /\ UNCHANGED <<phase, lines, last_rate_log, admits>>
       ELSE
            /\ request_timestamps' = Append(kept, clock)
            /\ total_requests' = total_requests + 1
            /\ admits' = LastAdmits(Append(admits, clock))
            /\ carries_payload' = has_payload_line(msg)
            /\ last_rate_log' = IF clock - last_rate_log >= 60 THEN clock
                                ELSE last_rate_log
            /\ IF reaches_lines(msg)
               THEN phase' = "line" /\ lines' = msg.logs /\ returned' = "pending"
               ELSE /\ phase' = "idle"
                    /\ lines' = <<>>
                    /\ returned' = IF head_exception(msg) = "none" THEN "None"
                                   ELSE outer_handler(head_exception(msg))
            /\ UNCHANGED <<rate_limit_hits, clock>>
    /\ UNCHANGED <<fixture, decoded_log, min_profit_threshold, dry_run,
                   gas_estimate,
                   pool_reserves_cache, last_pool_update, refreshes, total_opportunities,
                   total_profit, ticks, message_budget, tx_params, execution,
                   connVars, libVars>>

\* the locals and fields a pass of the loop can change, before the pass
LineState ==
    [phase |-> phase, lines |-> lines, returned |-> returned,
     ray_log |-> ray_log, decoded |-> decoded, simulation |-> simulation,
     sim_snapshot |-> sim_snapshot, impact |-> impact, clock |-> clock,
     pool_reserves_cache |-> pool_reserves_cache,
     last_pool_update |-> last_pool_update,
     refreshes |-> refreshes,
     total_opportunities |-> total_opportunities,
     total_profit |-> total_profit]

\* the end of a process_log call; its locals are gone
Finish(st, value) ==
    [st EXCEPT !.phase = "idle", !.lines = <<>>, !.returned = value,
               !.ray_log = <<>>, !.impact = [bound |-> FALSE]]

\* `continue`
NextLine(st) == [st EXCEPT !.lines = Tail(st.lines)]

\* snapshot_usable without the age test
snapshot_usable_any_age(cache, pool_type, now) ==
    pool_type \in DOMAIN cache

\* lines 304-305: the cache holds an entry for the pool and it is younger
\* than 300 seconds
snapshot_usable(cache, pool_type, now) ==
    /\ pool_type \in DOMAIN cache
    /\ now - cache[pool_type].last_update < 300

\* record_opportunity that books the simulated profit at once
record_opportunity_booked(st, sim) ==
    [st EXCEPT !.total_opportunities = st.total_opportunities + 1,
               !.total_profit = st.total_profit + sim.rec.net_profit]

\* lines 328-330 for a result `sim` of simulate_sandwich: the opportunity is
\* counted, then simulation.is_profitable is read.  SimulationResult has no
\* such attribute (its flag is `success`), so the AttributeError leaves the
\* call through the handler of line 459 and lines 331-429 (the log, the
\* trade parameters, the execution, total_profit) are never run.
record_opportunity(st, sim) ==
    [st EXCEPT !.total_opportunities = st.total_opportunities + 1]

\* lines 285-429 for the decoded record `rec` in state st, once the cache
\* is as the refresh of lines 280-283 left it
evaluate_swap(st, rec) ==
    LET amount_in == Get(rec, "amount_in", 0)
        amount_out == Get(rec, "amount_out", 0)
        pool_type == Get(rec, "pool_type", "unknown")
        cache == st.pool_reserves_cache
        usable == snapshot_usable(cache, pool_type, st.clock)
        loc == IF usable
               THEN [bound |-> TRUE, amount_in |-> amount_in,
                     amount_out |-> amount_out,
                     token_a |-> cache[pool_type].token_a]
               ELSE st.impact
        sim == simulate_sandwich(rec, PoolDetails, 10000000, dry_run)
        snapshot == IF pool_type \in DOMAIN cache
                    THEN [present |-> TRUE,
                          token_a |-> cache[pool_type].token_a,
                          token_b |-> cache[pool_type].token_b,
                          age |-> st.clock - cache[pool_type].last_update,
                          amount_in |-> amount_in,
                          amount_out |-> amount_out]
                    ELSE [present |-> FALSE]
    IN  IF amount_in <= 0 \/ amount_out <= 0 THEN NextLine(st)
        ELSE IF pool_type \notin {"SOL/USDC", "SOL/USDT"} THEN NextLine(st)
        ELSE IF usable /\ cache[pool_type].token_a = 0
             THEN Finish(st, outer_handler("ZeroDivisionError"))
        ELSE IF ~loc.bound
             THEN Finish(st, outer_handler("UnboundLocalError"))
        ELSE IF ~swap_guard(loc) THEN Finish([st EXCEPT !.impact = loc], "info")
        ELSE IF sim.kind = "record" THEN
            Finish(record_opportunity([st EXCEPT !.impact = loc,
                                                 !.simulation = sim,
                                                 !.sim_snapshot = snapshot],
                                      sim),
                   outer_handler("AttributeError"))
        ELSE Finish([st EXCEPT !.impact = loc, !.simulation = sim,
                               !.sim_snapshot = snapshot], "info")

\* the calls of update_pool_reserves an interval can be judged on
LastTwo(times) ==
    IF Len(times) > 2 THEN SubSeq(times, Len(times) - 1, Len(times)) ELSE times

\* one pass of the loop over the lines (lines 257-452) in state st, up to
\* the await of update_pool_reserves if the refresh is due
process_line(st) ==
    IF st.lines = <<>> THEN Finish(st, "None")
    ELSE IF ~Contains(Head(st.lines), RayLogTag) THEN Finish(st, "info")
    ELSE IF ~Contains(Head(st.lines), PrefixStr)
         THEN Finish(st, outer_handler("IndexError"))   \* split(...)[1]
    ELSE
        LET ray_log_data == SplitSecond(Head(st.lines), PrefixStr)
            dec == decode_ray_log(ray_log_data)
            st1 == [st EXCEPT !.ray_log = ray_log_data, !.decoded = dec]
        IN  IF dec.kind = "raise" THEN NextLine(st1)    \* logged; continue
            ELSE IF dec.kind = "none" THEN Finish(st1, "info")
            ELSE IF st.clock - st.last_pool_update > 60
                 THEN [st1 EXCEPT !.phase = "reading",
                                  !.refreshes = LastTwo(Append(@, st.clock))]
            ELSE evaluate_swap(st1, dec.rec)

\* account_read without the assignment of line 283
account_read_unstamped(st, outcome, delay) ==
    LET pool_type == Get(st.decoded.rec, "pool_type", "unknown")
        after == st.clock + delay
    IN  evaluate_swap(
            [st EXCEPT !.phase = "line",
                       !.clock = after,
                       !.pool_reserves_cache =
                            update_pool_reserves(st.pool_reserves_cache,
                                                 pool_type, outcome, after)],
            st.decoded.rec)

\* the pass resumes when get_account_info comes back with `outcome` after
\* `delay` seconds (lines 104-123, 283), and runs to its end
account_read(st, outcome, delay) ==
    LET pool_type == Get(st.decoded.rec, "pool_type", "unknown")
        after == st.clock + delay
    IN  evaluate_swap(
            [st EXCEPT !.phase = "line",
                       !.clock = after,
                       !.pool_reserves_cache =
                            update_pool_reserves(st.pool_reserves_cache,
                                                 pool_type, outcome, after),
                       !.last_pool_update = st.clock],
            st.decoded.rec)

SetLineState(st) ==
    /\ phase' = st.phase
    /\ lines' = st.lines
    /\ returned' = st.returned
    /\ ray_log' = st.ray_log
    /\ decoded' = st.decoded
    /\ simulation' = st.simulation
    /\ sim_snapshot' = st.sim_snapshot
    /\ impact' = st.impact
    /\ clock' = st.clock
    /\ pool_reserves_cache' = st.pool_reserves_cache
    /\ last_pool_update' = st.last_pool_update
    /\ refreshes' = st.refreshes
    /\ total_opportunities' = st.total_opportunities
    /\ total_profit' = st.total_profit
    /\ UNCHANGED <<fixture, decoded_log, min_profit_threshold, dry_run,
                   gas_estimate,
                   request_timestamps, rate_limit_hits, total_requests,
                   last_rate_log, ticks, carries_payload, admits,
                   message_budget, tx_params, execution,
                   connVars, libVars>>

ProcessLine ==
    /\ phase = "line"
    /\ SetLineState(process_line(LineState))

AccountRead(outcome, delay) ==
    /\ phase = "reading"
    /\ SetLineState(account_read(LineState, outcome, delay))

\* time passes between two steps
Tick(d) ==
    /\ phase # "reading"
    /\ ticks < MaxTicks
    /\ ticks' = ticks + 1
    /\ clock' = clock + d
    /\ UNCHANGED <<phase, decVars, simVars, request_timestamps, rate_limit_hits,
                   total_requests, last_rate_log, pool_reserves_cache,
                   last_pool_update, refreshes, total_opportunities, total_profit, lines,
                   impact, returned, sim_snapshot, carries_payload, admits,
                   message_budget, tx_params, execution,
                   connVars, libVars>>

(***************************************************************************)
(* SpecDirection: determine_trade_direction (ray_log_decoder.py 67-121)    *)
(* applied to pairs of amounts                                             *)
(***************************************************************************)
\* scaled_in_below with `<=` for `<`
scaled_in_not_above(amount_in, factor, amount_out) ==
    amount_in <= amount_out \div factor

\* line 115, scaled_in < scaled_out with scaled_in = amount_in * factor and
\* scaled_out = amount_out; the Decimal product is exact, and for
\* factor > 0 the comparison is decided here without forming it
scaled_in_below(amount_in, factor, amount_out) ==
    amount_in <= (amount_out - 1) \div factor

determine_trade_direction(amount_in, amount_out, pool_type) ==
    IF pool_type \notin DOMAIN POOL_CONFIGS THEN "unknown"
    ELSE
        LET token_b_decimals == POOL_CONFIGS[pool_type].token_b_decimals IN
        IF pool_type \in {"SOL/USDC", "SOL/USDT"} THEN
            IF scaled_in_below(amount_in, 10^(9 - token_b_decimals), amount_out)
            THEN "buy"
            ELSE "sell"
        ELSE "unknown"

DirAmounts ==
    {0, 1, 999, 1000, 1001, 1000000, 38000000, 40000000, 1000000000,
     1900000000, 2000000000}
DirPoolTypes == {"SOL/USDC", "SOL/USDT", "UNSUPPORTED"}

DirLogs ==
    [amount_in : DirAmounts, amount_out : DirAmounts, pool_type : DirPoolTypes]

InitDirection ==
    /\ phase = "input"
    /\ decoded_log \in DirLogs
    /\ min_profit_threshold = 10000000
    /\ dry_run = FALSE
    /\ simulation = NotRun
    /\ gas_estimate = NotRun
    /\ DecoderIdle
    /\ MonitorConstructed
    /\ LibIdle
    /\ message_budget = 0

DetermineTradeDirection ==
    /\ phase = "input"
    /\ direction' = determine_trade_direction(decoded_log.amount_in,
                                              decoded_log.amount_out,
                                              decoded_log.pool_type)
    /\ phase' = "classified"
    /\ UNCHANGED <<decVars, simVars, monVars, connVars, rate_limiter,
                   limiter_time, allowed, granted, limiter_calls, send,
                   sandwich, tasks>>

NextDirection == DetermineTradeDirection

SpecDirection == InitDirection /\ [][NextDirection]_vars

(***************************************************************************)
(* SpecLimiter: RateLimiter.check_rate_limit (rate_limiter.py) under calls *)
(* and pauses                                                              *)
(***************************************************************************)
\* in_window keeping a timestamp that is exactly window_seconds old
in_window_closed(ts, current_time, window_seconds) ==
    current_time - ts <= window_seconds * TicksPerSecond

\* line 35: current_time - ts < self.window_seconds
in_window(ts, current_time, window_seconds) ==
    current_time - ts < window_seconds * TicksPerSecond

\* RateLimiter.check_rate_limit (lines 24-47): the limiter afterwards and
\* the value returned
RateLimiter_check_rate_limit(limiter, current_time) ==
    LET Current(ts) == in_window(ts, current_time, limiter.window_seconds)
        current_window == SelectSeq(limiter.request_timestamps, Current)
        cleaned == [limiter EXCEPT !.request_timestamps = current_window]
    IN  IF Len(current_window) >= limiter.max_requests
        THEN [limiter |-> cleaned, result |-> FALSE]
        ELSE [limiter |-> [cleaned EXCEPT !.request_timestamps =
                                            Append(current_window, current_time)],
              result |-> TRUE]

LimiterSizes == {1, 2, 15}
\* pauses of 0.1, 0.5, 1.0 and 1.1 seconds
LimiterPauses == {1, 5, 10, 11}

InitLimiter ==
    /\ phase = "limiting"
    /\ DecoderIdle
    /\ SimIdle
    /\ MonitorConstructed
    /\ message_budget = 0
    /\ direction = "notrun"
    /\ \E n \in LimiterSizes : RateLimiterConstructed(n, 1)
    /\ send = SendIdle
    /\ sandwich = SandwichIdle
    /\ tasks = TasksIdle

CheckRateLimit ==
    /\ phase = "limiting"
    /\ limiter_calls < MaxBurst
    /\ limiter_calls' = limiter_calls + 1
    /\ LET out == RateLimiter_check_rate_limit(rate_limiter, limiter_time) IN
        /\ rate_limiter' = out.limiter
        /\ allowed' = Return(out.result)
        /\ granted' = IF out.result THEN Append(granted, limiter_time)
                      ELSE granted
    /\ UNCHANGED <<phase, decVars, simVars, monVars, connVars, direction,
                   limiter_time, send, sandwich, tasks>>

\* time.sleep between two calls
Sleep(d) ==
    /\ phase = "limiting"
    /\ ticks < MaxTicks
    /\ ticks' = ticks + 1
    /\ limiter_time' = limiter_time + d
    /\ UNCHANGED <<phase, decVars, simVars, connVars, direction, rate_limiter,
                   allowed, granted, limiter_calls, send, sandwich, tasks,
                   clock, request_timestamps, rate_limit_hits, total_requests,
                   last_rate_log, pool_reserves_cache, last_pool_update,
                   refreshes, total_opportunities, total_profit, lines, impact,
                   returned, sim_snapshot, carries_payload, admits,
                   message_budget, tx_params, execution>>

NextLimiter ==
    \/ CheckRateLimit
    \/ \E d \in LimiterPauses : Sleep(d)

SpecLimiter == InitLimiter /\ [][NextLimiter]_vars

(***************************************************************************)
(* rate_limiter.py: RateLimiter.async_wait_if_needed, shared by tasks      *)
(***************************************************************************)
\* lines 76-88: the limiter after the clean-up, whether it is at its limit,
\* and the sleep_time computed from the oldest timestamp
async_wait_entry(limiter, current_time) ==
    LET Current(ts) == in_window(ts, current_time, limiter.window_seconds)
        kept == SelectSeq(limiter.request_timestamps, Current)
        cleaned == [limiter EXCEPT !.request_timestamps = kept]
    IN  IF Len(kept) >= limiter.max_requests
        THEN [limiter |-> cleaned, at_limit |-> TRUE,
              sleep_time |-> kept[1]
                             + limiter.window_seconds * TicksPerSecond
                             - current_time]
        ELSE [limiter |-> cleaned, at_limit |-> FALSE, sleep_time |-> 0]

\* lines 92-95: request_timestamps[1:] when the limit had been reached, then
\* the append of time.time()
async_wait_exit(limiter, at_limit, now) ==
    LET stamps == limiter.request_timestamps
        rest == IF at_limit THEN SubSeq(stamps, 2, Len(stamps)) ELSE stamps
    IN  [limiter EXCEPT !.request_timestamps = Append(rest, now)]

\* the tasks suspended at line 90
Sleeping == {t \in 1..MaxTasks : tasks[t].pc = "sleeping"}

WaiterSizes == {1, 2}
WaiterPauses == {1, 5, 10}

InitWaiters ==
    /\ phase = "awaiting"
    /\ DecoderIdle
    /\ SimIdle
    /\ MonitorConstructed
    /\ message_budget = 0
    /\ direction = "notrun"
    /\ \E n \in WaiterSizes : RateLimiterConstructed(n, 1)
    /\ send = SendIdle
    /\ sandwich = SandwichIdle
    /\ tasks = TasksIdle

WaitersUnchanged ==
    UNCHANGED <<phase, decVars, simVars, connVars, direction, allowed, send,
                sandwich, clock, request_timestamps, rate_limit_hits,
                total_requests, last_rate_log, pool_reserves_cache,
                last_pool_update, refreshes, total_opportunities,
                total_profit, lines, impact, returned, sim_snapshot,
                carries_payload, admits, message_budget, tx_params,
                execution>>

\* task t calls async_wait_if_needed and runs until it returns or suspends
\* at the sleep
AsyncWaitIfNeeded(t) ==
    /\ phase = "awaiting"
    /\ tasks[t].pc = "idle"
    /\ limiter_calls < MaxWaits
    /\ limiter_calls' = limiter_calls + 1
    /\ LET entry == async_wait_entry(rate_limiter, limiter_time) IN
        IF entry.at_limit /\ entry.sleep_time > 0 THEN
            /\ rate_limiter' = entry.limiter
            /\ tasks' = [tasks EXCEPT ![t] =
                            [pc |-> "sleeping",
                             wake_at |-> limiter_time + entry.sleep_time]]
            /\ UNCHANGED granted
        ELSE
            /\ rate_limiter' = async_wait_exit(entry.limiter, entry.at_limit,
                                               limiter_time)
            /\ granted' = Append(granted, limiter_time)
            /\ UNCHANGED tasks
    /\ UNCHANGED <<limiter_time, ticks>>
    /\ WaitersUnchanged

\* the sleep of task t ends, the earliest one first, and the task runs to
\* the end of the call
Resume(t) ==
    /\ phase = "awaiting"
    /\ t \in Sleeping
    /\ \A u \in Sleeping : tasks[t].wake_at <= tasks[u].wake_at
    /\ LET now == IF tasks[t].wake_at > limiter_time THEN tasks[t].wake_at
                  ELSE limiter_time
       IN  /\ limiter_time' = now
           /\ rate_limiter' = async_wait_exit(rate_limiter, TRUE, now)
           /\ granted' = Append(granted, now)
    /\ tasks' = [tasks EXCEPT ![t] = [pc |-> "idle", wake_at |-> 0]]
    /\ UNCHANGED <<limiter_calls, ticks>>
    /\ WaitersUnchanged

\* time passes while no sleep is due
Pause(d) ==
    /\ phase = "awaiting"
    /\ ticks < MaxTicks
    /\ \A u \in Sleeping : limiter_time + d <= tasks[u].wake_at
    /\ ticks' = ticks + 1
    /\ limiter_time' = limiter_time + d
    /\ UNCHANGED <<rate_limiter, granted, limiter_calls, tasks>>
    /\ WaitersUnchanged

NextWaiters ==
    \/ \E t \in 1..MaxTasks : AsyncWaitIfNeeded(t)
    \/ \E t \in 1..MaxTasks : Resume(t)
    \/ \E d \in WaiterPauses : Pause(d)

SpecWaiters == InitWaiters /\ [][NextWaiters]_vars

(***************************************************************************)
(* SpecSend: TransactionExecutor._send_transaction (executor.py 83-182)    *)
(* against an RPC client whose calls return or raise                       *)
(***************************************************************************)
\* next_attempt that goes round the loop without advancing
next_attempt_same(attempt) == attempt

\* `continue` in `for attempt in range(max_retries)`
next_attempt(attempt) == attempt + 1

\* the top of the loop body for attempt a, or the `return None` of line 182
\* when range(max_retries) is used up
begin_attempt(st, a) ==
    IF a >= st.max_retries
    THEN [st EXCEPT !.pc = "done", !.attempt = a, !.result = None]
    ELSE [st EXCEPT !.pc = "blockhash", !.attempt = a,
                    !.blockhash_attempt = 0, !.confirm_attempt = 0,
                    !.fetches = 0, !.polls = 0]

\* lines 166-172: an exception reached the inner handler; rate_limited says
\* whether its text holds "429"
attempt_failed(st, rate_limited) ==
    IF rate_limited THEN begin_attempt(st, next_attempt(st.attempt))
    ELSE IF st.attempt = st.max_retries - 1
    THEN [st EXCEPT !.pc = "done", !.result = None]
    ELSE begin_attempt(st, next_attempt(st.attempt))

\* lines 115-126: one pass of the blockhash loop
get_latest_blockhash(st, outcome) ==
    LET st1 == [st EXCEPT !.fetches = @ + 1] IN
    IF outcome = "ok" THEN [st1 EXCEPT !.pc = "submit"]
    ELSE IF outcome = "429" /\ st.blockhash_attempt < 2
    THEN [st1 EXCEPT !.blockhash_attempt = @ + 1]
    ELSE attempt_failed(st1, outcome = "429")

\* lines 128-144: the submission
send_transaction(st, outcome) ==
    LET st1 == [st EXCEPT !.submissions = @ + 1] IN
    IF outcome = "ok"
    THEN [st1 EXCEPT !.pc = "confirm", !.confirm_attempt = 0, !.polls = 0]
    ELSE attempt_failed(st1, outcome = "429")

\* lines 146-164: one pass of the confirmation loop
confirm_transaction(st, outcome) ==
    LET st1 == [st EXCEPT !.polls = @ + 1] IN
    IF outcome = "ok"
    THEN [st1 EXCEPT !.pc = "done", !.result = Return("signature")]
    ELSE IF st.confirm_attempt < 2 /\ outcome \in {"429", "not found"}
    THEN [st1 EXCEPT !.confirm_attempt = @ + 1]
    ELSE attempt_failed(st1, outcome = "429")

\* what the client's calls can do: return, or raise with "429" in the text,
\* with "not found" in the text, or with neither
RpcOutcomes == {"ok", "429", "not found", "error"}

InitSend ==
    /\ phase = "sending"
    /\ DecoderIdle
    /\ SimIdle
    /\ MonitorConstructed
    /\ message_budget = 0
    /\ direction = "notrun"
    /\ RateLimiterConstructed(15, 1)
    /\ \E n \in 0..MaxRetries :
            send = begin_attempt([SendIdle EXCEPT !.max_retries = n], 0)
    /\ sandwich = SandwichIdle
    /\ tasks = TasksIdle

SendUnchanged ==
    UNCHANGED <<phase, decVars, simVars, monVars, connVars, direction,
                rate_limiter, limiter_time, allowed, granted, limiter_calls,
                sandwich, tasks>>

GetLatestBlockhash(outcome) ==
    /\ phase = "sending"
    /\ send.pc = "blockhash"
    /\ send' = get_latest_blockhash(send, outcome)
    /\ SendUnchanged

SendTransaction(outcome) ==
    /\ phase = "sending"
    /\ send.pc = "submit"
    /\ send.submissions <= MaxRetries
    /\ send' = send_transaction(send, outcome)
    /\ SendUnchanged

ConfirmTransaction(outcome) ==
    /\ phase = "sending"
    /\ send.pc = "confirm"
    /\ send' = confirm_transaction(send, outcome)
    /\ SendUnchanged

NextSend ==
    \/ \E outcome \in RpcOutcomes : GetLatestBlockhash(outcome)
    \/ \E outcome \in RpcOutcomes : SendTransaction(outcome)
    \/ \E outcome \in RpcOutcomes : ConfirmTransaction(outcome)

\* every call of the client returns or raises, and every sleep ends
SpecSend == InitSend /\ [][NextSend]_vars /\ WF_vars(NextSend)

(***************************************************************************)
(* executor.py: TransactionExecutor.execute_sandwich                       *)
(***************************************************************************)
\* the transactions of the pair
Legs == {"front", "back"}

\* a fresh call of _send_transaction(transaction, max_retries)
send_call(max_retries) ==
    begin_attempt([SendIdle EXCEPT !.max_retries = max_retries], 0)

\* lines 59-69: the simulated signatures f"DRY_RUN_FRONT_{int(time.time())}"
\* and f"DRY_RUN_BACK_{int(time.time())}" of a dry run, or the call of
\* _send_transaction for the front-run
execute_sandwich(sw, now) ==
    IF sw.dry_run
    THEN [sw EXCEPT !.pc = "done",
                    !.result = Return(<<[tag |-> "DRY_RUN_FRONT", at |-> now],
                                        [tag |-> "DRY_RUN_BACK", at |-> now]>>)]
    ELSE [sw EXCEPT !.pc = "front"]

\* after_front going on to the back-run whatever the front-run returned
after_front_regardless(sw, front_sig) ==
    [sw EXCEPT !.pc = "back", !.front_sig = front_sig]

\* lines 65-69: `if not front_sig: return None`, else on to the back-run
after_front(sw, front_sig) ==
    IF front_sig.kind # "record"
    THEN [sw EXCEPT !.pc = "done", !.result = None]
    ELSE [sw EXCEPT !.pc = "back", !.front_sig = front_sig]

\* lines 71-77: `if not back_sig: return None`, else both signatures
after_back(sw, back_sig) ==
    IF back_sig.kind # "record"
    THEN [sw EXCEPT !.pc = "done", !.result = None]
    ELSE [sw EXCEPT !.pc = "done",
                    !.result = Return(<<[tag |-> sw.front_sig.rec, of |-> "front"],
                                        [tag |-> back_sig.rec, of |-> "back"]>>)]

\* one call of the RPC client inside _send_transaction, by its position
send_step(st, outcome) ==
    CASE st.pc = "blockhash" -> get_latest_blockhash(st, outcome)
      [] st.pc = "submit" -> send_transaction(st, outcome)
      [] st.pc = "confirm" -> confirm_transaction(st, outcome)

\* what the call leaves on the record of the pair: send_transaction was
\* called with the transaction of `leg`; confirm_transaction returned for it
leg_record(sw, leg, st, outcome) ==
    [sw EXCEPT
        !.submitted = IF st.pc = "submit" THEN @ \cup {leg} ELSE @,
        !.confirmed = IF st.pc = "confirm" /\ outcome = "ok"
                      THEN @ \cup {leg} ELSE @]

InitSandwich ==
    /\ phase = "sandwich"
    /\ DecoderIdle
    /\ SimIdle
    /\ MonitorConstructed
    /\ message_budget = 0
    /\ direction = "notrun"
    /\ RateLimiterConstructed(15, 1)
    /\ send = SendIdle
    /\ tasks = TasksIdle
    /\ \E n \in 0..MaxRetries, dry \in BOOLEAN :
            sandwich = [SandwichIdle EXCEPT !.pc = "start", !.dry_run = dry,
                                            !.max_retries = n]

SandwichUnchanged ==
    UNCHANGED <<phase, decVars, simVars, monVars, connVars, direction,
                rate_limiter, limiter_time, allowed, granted, limiter_calls,
                tasks>>

ExecuteSandwich ==
    /\ phase = "sandwich"
    /\ sandwich.pc = "start"
    /\ sandwich' = execute_sandwich(sandwich, clock)
    /\ send' = IF sandwich.dry_run THEN send
               ELSE send_call(sandwich.max_retries)
    /\ SandwichUnchanged

\* a call of the RPC client returns or raises inside the _send_transaction
\* of the front-run or of the back-run
ClientCall(outcome) ==
    /\ phase = "sandwich"
    /\ sandwich.pc \in Legs
    /\ send.pc \in {"blockhash", "submit", "confirm"}
    /\ send' = send_step(send, outcome)
    /\ sandwich' = leg_record(sandwich, sandwich.pc, send, outcome)
    /\ SandwichUnchanged

\* _send_transaction(front_tx, max_retries) has returned
FrontReturned ==
    /\ phase = "sandwich"
    /\ sandwich.pc = "front"
    /\ send.pc = "done"
    /\ sandwich' = after_front(sandwich, send.result)
    /\ send' = IF sandwich'.pc = "back" THEN send_call(sandwich.max_retries)
               ELSE send
    /\ SandwichUnchanged

\* _send_transaction(back_tx, max_retries) has returned
BackReturned ==
    /\ phase = "sandwich"
    /\ sandwich.pc = "back"
    /\ send.pc = "done"
    /\ sandwich' = after_back(sandwich, send.result)
    /\ UNCHANGED send
    /\ SandwichUnchanged

NextSandwich ==
    \/ ExecuteSandwich
    \/ \E outcome \in RpcOutcomes : ClientCall(outcome)
    \/ FrontReturned
    \/ BackReturned

SpecSandwich == InitSandwich /\ [][NextSandwich]_vars

(***************************************************************************)
(* SpecRate: a burst of inbound messages against check_rate_limit.  The    *)
(* gate is the first statement of process_log, so the burst is made of the *)
(* messages that end before the loop over the lines.                       *)
(***************************************************************************)
RateMessages == {msg \in MonMessages : ~reaches_lines(msg)}
RateTickSteps == {1, 2}

InitRate ==
    /\ phase = "idle"
    /\ MonitorConstructed
    /\ LibIdle
    /\ message_budget = MaxBurst
    /\ DecoderIdle
    /\ decoded_log = [pool_type |-> "SOL/USDC"]
    /\ min_profit_threshold = 10000000
    /\ dry_run = TRUE
    /\ simulation = NotRun
    /\ gas_estimate = NotRun

NextRate ==
    \/ \E msg \in RateMessages : ProcessLog(msg)
    \/ \E d \in RateTickSteps : Tick(d)

SpecRate == InitRate /\ [][NextRate]_vars

(***************************************************************************)
(* SpecConnect: the reconnect loop of monitor_swaps (lines 464-530)        *)
(***************************************************************************)
\* check_rate_limit (lines 146-178) on the deque: whether the request is
\* admitted, and the deque afterwards
check_rate_limit(stamps, now) ==
    LET kept == evict(stamps, now) IN
    IF Len(kept) >= MAX_REQUESTS_PER_SECOND
    THEN [admitted |-> FALSE, stamps |-> kept]
    ELSE [admitted |-> TRUE, stamps |-> Append(kept, now)]

\* backoff without the cap
backoff_uncapped(delay) == delay * 2

\* line 519 / 523
backoff(delay) == Min(delay * 2, 60)

\* may_attempt without the wait for the retry delay
may_attempt_at_once(active, now, last_attempt, delay) == ~active

\* line 470
may_attempt(active, now, last_attempt, delay) ==
    ~active /\ now - last_attempt >= delay

\* how an attempt can go: websockets.connect raises; or the connection is
\* made and then the confirmation carries "result", the response carries no
\* "result", or the socket closes before the response
ConnectOutcomes == {"refused", "confirmed", "invalid", "closed"}

\* lines 470-525 for one attempt, from the state `st` of the fields
connect_attempt(st, outcome) ==
    LET started == [st EXCEPT !.last_connection_attempt = st.clock] IN
    IF outcome = "refused" THEN
        [started EXCEPT !.subscription_active = FALSE,
                        !.connection_retry_delay = backoff(st.connection_retry_delay),
                        !.failed_attempts = @ + 1,
                        !.clock = @ + 1]                    \* line 525
    ELSE
        \* line 477: the delay is reset as soon as the connection is made
        LET connected == [started EXCEPT !.connection_retry_delay = 5]
            gate == check_rate_limit(st.request_timestamps, st.clock)
        IN  IF ~gate.admitted THEN
                \* subscribe_to_program_logs sleeps a second and returns
                \* None; line 483 raises, line 523 doubles
                [connected EXCEPT !.request_timestamps = gate.stamps,
                                  !.rate_limit_hits = @ + 1,
                                  !.subscription_active = FALSE,
                                  !.connection_retry_delay = backoff(5),
                                  !.failed_attempts = @ + 1,
                                  !.clock = @ + 2]
            ELSE
                LET asked == [connected EXCEPT
                                !.request_timestamps = gate.stamps,
                                !.total_requests = @ + 1,
                                !.last_rate_log =
                                    IF st.clock - @ >= 60 THEN st.clock ELSE @]
                IN  IF outcome = "confirmed"
                    THEN [asked EXCEPT !.subscription_active = TRUE,
                                       !.failed_attempts = 0]
                    ELSE [asked EXCEPT !.subscription_active = FALSE,
                                       !.connection_retry_delay = backoff(5),
                                       !.failed_attempts = @ + 1,
                                       !.clock = @ + 1]

ConnState ==
    [subscription_active |-> subscription_active,
     last_connection_attempt |-> last_connection_attempt,
     connection_retry_delay |-> connection_retry_delay,
     failed_attempts |-> failed_attempts,
     clock |-> clock,
     request_timestamps |-> request_timestamps,
     rate_limit_hits |-> rate_limit_hits,
     total_requests |-> total_requests,
     last_rate_log |-> last_rate_log]

InitConnect ==
    /\ phase = "idle"
    /\ MonitorConstructed
    /\ LibIdle
    /\ message_budget = MaxMessages
    /\ DecoderIdle
    /\ decoded_log = [pool_type |-> "SOL/USDC"]
    /\ min_profit_threshold = 10000000
    /\ dry_run = TRUE
    /\ simulation = NotRun
    /\ gas_estimate = NotRun

\* an iteration of the outer loop that attempts a connection
Attempt(outcome) ==
    /\ phase = "idle"
    /\ may_attempt(subscription_active, clock, last_connection_attempt,
                   connection_retry_delay)
    /\ attempts < MaxAttempts
    /\ attempts' = attempts + 1
    /\ LET st == connect_attempt(ConnState, outcome) IN
        /\ subscription_active' = st.subscription_active
        /\ last_connection_attempt' = st.last_connection_attempt
        /\ connection_retry_delay' = st.connection_retry_delay
        /\ failed_attempts' = st.failed_attempts
        /\ clock' = st.clock
        /\ request_timestamps' = st.request_timestamps
        /\ rate_limit_hits' = st.rate_limit_hits
        /\ total_requests' = st.total_requests
        /\ last_rate_log' = st.last_rate_log
    /\ UNCHANGED <<phase, decVars, simVars, pool_reserves_cache,
                   last_pool_update, refreshes, total_opportunities, total_profit, lines,
                   impact, returned, ticks, sim_snapshot, carries_payload,
                   admits, message_budget, tx_params, execution,
                   libVars>>

\* an iteration of the outer loop before the retry delay has passed: only
\* the sleep of line 525
Wait ==
    /\ phase = "idle"
    /\ ~subscription_active
    /\ ~may_attempt(subscription_active, clock, last_connection_attempt,
                    connection_retry_delay)
    /\ clock' = clock + 1
    /\ UNCHANGED <<phase, decVars, simVars, connVars, libVars, request_timestamps,
                   rate_limit_hits, total_requests, last_rate_log,
                   pool_reserves_cache, last_pool_update, refreshes, total_opportunities,
                   total_profit, lines, impact, returned, ticks, sim_snapshot,
                   carries_payload, admits, message_budget, tx_params,
                   execution>>

\* lines 506-507: a message arrives on the subscribed socket
Receive(msg) ==
    /\ subscription_active
    /\ ProcessLog(msg)

\* lines 508-511, then line 525: the socket closes under the message loop
ConnectionClosed ==
    /\ phase = "idle"
    /\ subscription_active
    /\ subscription_active' = FALSE
    /\ clock' = clock + 1
    /\ UNCHANGED <<phase, decVars, simVars, last_connection_attempt,
                   connection_retry_delay, failed_attempts, attempts,
                   request_timestamps, rate_limit_hits, total_requests,
                   last_rate_log, pool_reserves_cache, last_pool_update, refreshes,
                   total_opportunities, total_profit, lines, impact, returned,
                   ticks, sim_snapshot, carries_payload, admits,
                   message_budget, tx_params, execution, libVars>>

ListenSteps == {1, 60}

\* time passes while the loop waits in websocket.recv()
Listen(d) ==
    /\ subscription_active
    /\ Tick(d)

NextConnect ==
    \/ \E outcome \in ConnectOutcomes : Attempt(outcome)
    \/ Wait
    \/ \E msg \in RateMessages : Receive(msg)
    \/ ConnectionClosed
    \/ \E d \in ListenSteps : Listen(d)

SpecConnect == InitConnect /\ [][NextConnect]_vars

(***************************************************************************)
(* SpecTrade: the dispatch block of process_log (lines 364-412) applied to *)
(* the values it reads.  process_log itself never gets there (see          *)
(* record_opportunity).                                                    *)
(***************************************************************************)
\* int(x * 0.98); the amounts of TradeAmountsOut are ones for which the
\* float product truncates to the exact quotient
two_percent_less(x) == (x \div 100) * 98 + ((x % 100) * 98) \div 100

\* lines 367-385: the keyword arguments of build_sandwich_transactions
trade_params(rec, pool_details) ==
    LET front_run_amount == rec.amount_in \div 4
        back_run_amount == front_run_amount
    IN  [front_run_amount |-> front_run_amount,
         user_amount |-> rec.amount_in,
         back_run_amount |-> back_run_amount,
         source_token |-> pool_details.token_a_account,
         destination_token |-> pool_details.token_b_account,
         minimum_output_amount |-> two_percent_less(rec.amount_out)]

\* dispatch_block without the dry-run test of line 365
dispatch_block_live(rec, sim, is_profitable, dry, profit, built, sent) ==
    LET large_enough == rec.amount_in >= min_trade_size IN
    IF is_profitable /\ large_enough THEN
        IF ~built
        THEN [tx_params |-> Return(trade_params(rec, PoolDetails)),
              execution |-> NotRun, total_profit |-> profit]
        ELSE IF sent
        THEN [tx_params |-> Return(trade_params(rec, PoolDetails)),
              execution |-> Return(<<"front_sig", "back_sig">>),
              total_profit |-> profit + sim.rec.net_profit]
        ELSE [tx_params |-> Return(trade_params(rec, PoolDetails)),
              execution |-> None, total_profit |-> profit]
    ELSE [tx_params |-> NotRun, execution |-> NotRun, total_profit |-> profit]

\* lines 331-333 and 364-412 for the decoded record `rec`, the simulation
\* result `sim` and the flag is_profitable; `built` says whether
\* build_sandwich_transactions returned, `sent` whether execute_sandwich
\* returned the two signatures (it returns None otherwise and never raises)
dispatch_block(rec, sim, is_profitable, dry, profit, built, sent) ==
    LET large_enough == rec.amount_in >= min_trade_size IN
    IF is_profitable /\ large_enough /\ ~dry THEN
        IF ~built
        THEN [tx_params |-> Return(trade_params(rec, PoolDetails)),
              execution |-> NotRun, total_profit |-> profit]
        ELSE IF sent
        THEN [tx_params |-> Return(trade_params(rec, PoolDetails)),
              execution |-> Return(<<"front_sig", "back_sig">>),
              total_profit |-> profit + sim.rec.net_profit]
        ELSE [tx_params |-> Return(trade_params(rec, PoolDetails)),
              execution |-> None, total_profit |-> profit]
    ELSE [tx_params |-> NotRun, execution |-> NotRun, total_profit |-> profit]

TradeAmountsIn ==
    {1000000000, 1000000001, 1000000003, 1500000000, 1999999999, 2000000000,
     2147483647}
TradeAmountsOut == {950000000, 990000000, 999999999, 1900000000}

TradeLogs ==
    [amount_in : TradeAmountsIn, amount_out : TradeAmountsOut,
     pool_type : {"SOL/USDC"}]

InitTrade ==
    /\ phase = "input"
    /\ decoded_log \in TradeLogs
    /\ min_profit_threshold = 10000000
    /\ dry_run \in BOOLEAN
    /\ simulation = simulate_sandwich(decoded_log, PoolDetails,
                                      min_profit_threshold, dry_run)
    /\ simulation.kind = "record"
    /\ gas_estimate = NotRun
    /\ DecoderIdle
    /\ MonitorConstructed
    /\ LibIdle
    /\ message_budget = 0

DispatchSandwich(is_profitable, built, sent) ==
    /\ phase = "input"
    /\ LET out == dispatch_block(decoded_log, simulation, is_profitable,
                                 dry_run, total_profit, built, sent)
       IN  /\ tx_params' = out.tx_params
           /\ execution' = out.execution
           /\ total_profit' = out.total_profit
    /\ phase' = "dispatched"
    /\ UNCHANGED <<decVars, simVars, connVars, libVars, clock, request_timestamps,
                   rate_limit_hits, total_requests, last_rate_log,
                   pool_reserves_cache, last_pool_update, refreshes, total_opportunities,
                   lines, impact, returned, ticks, sim_snapshot,
                   carries_payload, admits, message_budget>>

NextTrade ==
    \E is_profitable \in BOOLEAN, built \in BOOLEAN, sent \in BOOLEAN :
        DispatchSandwich(is_profitable, built, sent)

SpecTrade == InitTrade /\ [][NextTrade]_vars

NextMonitor ==
    \/ \E msg \in MonMessages : ProcessLog(msg)
    \/ ProcessLine
    \/ \E outcome \in ReaderOutcomes, delay \in ReadDelays : AccountRead(outcome, delay)
    \/ \E d \in TickSteps : Tick(d)

SpecMonitor == InitMonitor /\ [][NextMonitor]_vars

(***************************************************************************)
(* Properties of decode_ray_log (SpecDecoder)                              *)
(***************************************************************************)
Amounts(outcome) ==
    IF outcome.kind = "record"
    THEN <<"record", outcome.rec.amount_in, outcome.rec.amount_out>>
    ELSE <<outcome.kind, 0, 0>>

\* the fixture is exactly the packed values: no tag, no trailing bytes, and a
\* text that base64-decodes to them
PlainPayload(f) == ~f.tagged /\ f.extra = 0 /\ f.damage \in {"none", "junk"}

C2_FixedLayoutAmounts ==
    (phase = "decoded" /\ PlainPayload(fixture) /\ fixture.n \in {7, 6, 3}) =>
        Amounts(decoded) =
            <<"record",
              PackedValues(fixture)[IF fixture.n = 3 THEN 1 ELSE 2],
              PackedValues(fixture)[IF fixture.n = 3 THEN 2 ELSE 5]>>

\* C3: for every 32-byte body B, decoding base64(0x03 followed by B) yields
\* the same amount_in and amount_out as decoding base64(B).
C3_VersionTagTransparent ==
    (phase = "decoded" /\ PlainPayload(fixture) /\ fixture.n = 4) =>
        Amounts(decode_ray_log(RayLogOf([fixture EXCEPT !.tagged = TRUE]))) =
            Amounts(decoded)

\* C4: round trip: N >= 2 values, N not in {3, 4, 6, 7}, packed little-endian
\* and base64-encoded decode to a record with amount_in = v1, amount_out = v2.
C4_RoundTrip ==
    (phase = "decoded" /\ PlainPayload(fixture) /\ fixture.n >= 2
        /\ fixture.n \notin {3, 4, 6, 7}) =>
        Amounts(decoded) = <<"record", fixture.first, fixture.second>>

\* C5: every record decode_ray_log returns has amount_in > 0 and
\* amount_out > 0; zero amounts give a decode failure, never a record.
C5_AmountsPositive ==
    (phase = "decoded" /\ decoded.kind = "record") =>
        decoded.rec.amount_in > 0 /\ decoded.rec.amount_out > 0

(***************************************************************************)
(* Properties of simulate_sandwich (SpecSim)                               *)
(***************************************************************************)
Max(a, b) == IF a >= b THEN a ELSE b

\* C6: the profitability flag of every result is true iff
\* net_profit >= max(min_profit_threshold, 2 * gas_cost).
C6_SuccessIffAboveThreshold ==
    (phase = "simulated" /\ simulation.kind = "record") =>
        (simulation.rec.success <=>
            simulation.rec.net_profit >=
                Max(min_profit_threshold, 2 * simulation.rec.gas_cost))

\* C7: every SimulationResult that simulate_sandwich produces satisfies
\* net_profit = profit - gas_cost - pool_fees.
C7_NetProfitIdentity ==
    (phase = "simulated" /\ simulation.kind = "record") =>
        simulation.rec.net_profit =
            simulation.rec.profit - simulation.rec.gas_cost - simulation.rec.pool_fees

C7_Witness ==
    /\ phase = "simulated"
    /\ simulation.kind = "record"
    /\ simulation.rec.gas_cost > 0
    /\ simulation.rec.pool_fees > 0

\* C10: simulate_sandwich returns None for every record whose pool_type is
\* absent, None or no key of the pool registry, and for every record missing
\* amount_in or amount_out; a missing pool_type is not replaced by a default.
C10_UnresolvedPoolSkipped ==
    (phase = "simulated"
        /\ \/ "pool_type" \notin DOMAIN decoded_log
           \/ decoded_log.pool_type \notin DOMAIN POOL_CONFIGS
           \/ "amount_in" \notin DOMAIN decoded_log
           \/ "amount_out" \notin DOMAIN decoded_log) =>
        simulation = None

(***************************************************************************)
(* Properties of process_log with simulate_sandwich (SpecMonitor)          *)
(***************************************************************************)
\* C8: a swap is rejected (no SimulationResult is produced, nothing is
\* dispatched) whenever either reserve of its pool's snapshot is <= 0.
C8_RejectsEmptyReserve ==
    (sim_snapshot.present
        /\ (sim_snapshot.token_a <= 0 \/ sim_snapshot.token_b <= 0)) =>
        simulation.kind # "record"

\* C9: a swap whose amount_out equals the output its pool's reserves imply
\* for amount_in (price impact 0, below every min_price_impact) is never
\* reported as an opportunity by simulate_sandwich.
C9_NoOpportunityAtExpectedOutput ==
    (sim_snapshot.present
        /\ sim_snapshot.token_a > 0
        /\ sim_snapshot.token_b > 0
        /\ Scaled(sim_snapshot.amount_in) * Scaled(sim_snapshot.token_b) =
               Scaled(sim_snapshot.amount_out) * Scaled(sim_snapshot.token_a)) =>
        simulation.kind # "record"

(***************************************************************************)
(* The 32-byte layout (SpecDecoder)                                        *)
(***************************************************************************)
\* C19: for a 32-byte payload decode_ray_log interprets the four u64 values
\* as [timestamp_in, amount_in, amount_out, pool_id]: amount_out is the third
\* value and pool_id the fourth.
C19_Layout32 ==
    (phase = "decoded" /\ PlainPayload(fixture) /\ fixture.n = 4
        /\ decoded.kind = "record") =>
        /\ decoded.rec.amount_in = PackedValues(fixture)[2]
        /\ decoded.rec.amount_out = PackedValues(fixture)[3]
        /\ decoded.rec.pool_id = PackedValues(fixture)[4]

\* the payload is 32 bytes long once a leading version byte 0x03 is removed
Is32AfterTag(f) ==
    /\ f.n = 4
    /\ f.extra = 0
    /\ f.damage \in {"none", "junk"}
    /\ (f.tagged \/ f.first % 256 # 3)

\* C19 as amended: for a payload that is 32 bytes long once a leading version
\* byte 0x03 is removed, the four u64 values are read as [timestamp,
\* amount_in, pool_id, amount_out]: pool_id is the third value and amount_out
\* the fourth.
C19_Layout32Amended ==
    (phase = "decoded" /\ Is32AfterTag(fixture)) =>
        /\ decoded.kind = "record"
        /\ decoded.rec.timestamp = PackedValues(fixture)[1]
        /\ decoded.rec.amount_in = PackedValues(fixture)[2]
        /\ decoded.rec.pool_id = PackedValues(fixture)[3]
        /\ decoded.rec.amount_out = PackedValues(fixture)[4]

C19_Witness ==
    /\ phase = "decoded"
    /\ Is32AfterTag(fixture)
    /\ fixture.tagged
    /\ fixture.fill # 0
    /\ decoded.kind = "record"
    /\ decoded.rec.pool_id # decoded.rec.amount_out

\* C20: every 32-byte payload packing [t, a, p, b] whose first byte is not
\* the version tag 0x03 decodes to a record with amount_in = a and
\* amount_out = b, with or without the "ray_log: " prefix.
C20_Layout32Amounts ==
    (phase = "decoded" /\ PlainPayload(fixture) /\ fixture.n = 4
        /\ PayloadBytes(fixture)[1] # 3) =>
        Amounts(decoded) =
            <<"record", PackedValues(fixture)[2], PackedValues(fixture)[4]>>

C20_Witness ==
    /\ phase = "decoded"
    /\ PlainPayload(fixture)
    /\ fixture.n = 4
    /\ PayloadBytes(fixture)[1] # 3
    /\ fixture.prefixed
    /\ fixture.first = 1000000000
    /\ decoded.kind = "record"

(***************************************************************************)
(* Properties of estimate_gas_cost (SpecSim)                               *)
(***************************************************************************)
\* C18: estimate_gas_cost applies the multipliers 1.0 (normal), 1.5
\* (congested) and 2.0 (high) to one fixed two-transaction base cost (5000
\* lamports) and adds a 20% safety buffer: normal is 1.2 times the base,
\* congested 1.5 times normal, high 2 times normal.
C18_GasMultipliers ==
    (gas_estimate.kind = "record"
        /\ gas_estimate.rec.market_conditions \in {"normal", "congested", "high"}) =>
        LET tenths == CASE gas_estimate.rec.market_conditions = "normal" -> 10
                        [] gas_estimate.rec.market_conditions = "congested" -> 15
                        [] gas_estimate.rec.market_conditions = "high" -> 20
        IN  gas_estimate.rec.cost * 100 = 5000 * 12 * tenths

(***************************************************************************)
(* Properties of process_log (SpecMonitor)                                 *)
(***************************************************************************)
\* C11: process_log calls simulate_sandwich for a swap only if, at that
\* moment, the reserve cache holds a snapshot for the swap's pool that is
\* younger than 300 seconds; with a missing or stale snapshot the swap is
\* skipped, also on a later line of a message.
C11_FreshSnapshotOnly ==
    simulation.kind # "notrun" =>
        /\ sim_snapshot.present
        /\ sim_snapshot.age < 300

C11_Witness ==
    /\ simulation.kind = "record"
    /\ sim_snapshot.present
    /\ sim_snapshot.age >= 240
    /\ total_requests = 2

\* C16: every rate-admitted notification envelope with a line
\* "ray_log: <payload>" has that payload handed to decode_ray_log, whether
\* process_log gets the envelope as raw JSON text or as a parsed object.
\* (Stated for the first such line: once the call is over, decode_ray_log
\* has been called.)
C16_PayloadDecoded ==
    (phase = "idle" /\ carries_payload) => decoded.kind # "notrun"

\* C14: with dry_run false, whenever simulate_sandwich returns a profitable
\* result for a swap with amount_in >= min_trade_size, process_log builds
\* the sandwich transactions and calls execute_sandwich for them.
C14_ProfitableDispatched ==
    (phase = "idle"
        /\ ~dry_run
        /\ simulation.kind = "record"
        /\ simulation.rec.success
        /\ sim_snapshot.amount_in >= min_trade_size) =>
        /\ tx_params.kind = "record"
        /\ execution.kind # "notrun"

\* C15: total_profit never decreases, and it changes only in a step in which
\* execute_sandwich has just returned a successful result; a simulation
\* alone, a failed execution or a dry run never changes it.
C15_ProfitOnlyAfterExecution ==
    [][total_profit' # total_profit =>
            /\ total_profit' > total_profit
            /\ execution.kind = "notrun"
            /\ execution'.kind = "record"
            /\ ~dry_run]_vars

C15_Witness ==
    /\ phase = "idle"
    /\ simulation.kind = "record"
    /\ simulation.rec.net_profit > 0
    /\ total_opportunities = 2
    /\ total_profit = 0

C12_AtMostFifteenPerWindow ==
    /\ Len(request_timestamps) <= MAX_REQUESTS_PER_SECOND
    /\ Len(admits) = MAX_REQUESTS_PER_SECOND + 1
        => admits[Len(admits)] - admits[1] > REQUEST_WINDOW

\* a sixteenth message was admitted after the gate had turned one away
C12_Witness ==
    /\ Len(admits) = MAX_REQUESTS_PER_SECOND + 1
    /\ rate_limit_hits > 0
    /\ total_requests > MAX_REQUESTS_PER_SECOND

\* C13: after k consecutive reconnect attempts that failed before a
\* subscription was confirmed, connection_retry_delay is min(5 * 2^k, 60);
\* it is 5 again only once a subscription has been confirmed (k = 0).
C13_BackoffDoubles ==
    connection_retry_delay = Min(5 * 2^failed_attempts, 60)

\* C21: a payload prefixed with "ray_log: " decodes to the same outcome
\* (record, None or exception) as the payload alone.
C21_PrefixTransparent ==
    (phase = "decoded" /\ fixture.prefixed)
        => decoded = decode_ray_log(EncodedText(fixture))

\* a prefixed 32-byte payload has been decoded to a record
C21_Witness ==
    /\ phase = "decoded"
    /\ fixture.prefixed
    /\ fixture.n = 4
    /\ fixture.damage = "none"
    /\ decoded.kind = "record"
    /\ decoded.rec.amount_in = 1000000000

\* C22: simulate_sandwich returns None whenever amount_in is below the
\* pool's min_amount_threshold, whatever amount_out, the profit threshold
\* and the dry-run flag are.
C22_BelowMinAmountRejected ==
    (/\ phase = "simulated"
     /\ "amount_in" \in DOMAIN decoded_log
     /\ Get(decoded_log, "pool_type", "SOL/USDC") \in DOMAIN POOL_CONFIGS
     /\ decoded_log.amount_in
            < POOL_CONFIGS[Get(decoded_log, "pool_type", "SOL/USDC")].min_amount_threshold)
        => simulation = None

\* a swap one lamport under the threshold, with a valid amount_out, was
\* turned down
C22_Witness ==
    /\ phase = "simulated"
    /\ "amount_in" \in DOMAIN decoded_log
    /\ "amount_out" \in DOMAIN decoded_log
    /\ decoded_log.amount_in = 999999999
    /\ decoded_log.amount_out = 2000000000
    /\ Get(decoded_log, "pool_type", "SOL/USDC") = "SOL/USDT"
    /\ min_profit_threshold = 0
    /\ simulation = None

\* amount_in / 10^token_a_decimals = amount_out / 10^token_b_decimals
EqualNormalized(log) ==
    LET c == POOL_CONFIGS[log.pool_type]
        k == 10^(c.token_a_decimals - c.token_b_decimals)
    IN  log.amount_in % k = 0 /\ log.amount_in \div k = log.amount_out

\* C23: for a supported pool, a swap whose two amounts are equal once each
\* is divided by its token's decimals is classified 'sell'.
C23_EqualNormalizedSells ==
    (/\ phase = "classified"
     /\ decoded_log.pool_type \in DOMAIN POOL_CONFIGS
     /\ EqualNormalized(decoded_log))
        => direction = "sell"

\* 1 SOL against 1 USDC was classified
C23_Witness ==
    /\ phase = "classified"
    /\ decoded_log = [amount_in |-> 1000000000, amount_out |-> 1000000,
                      pool_type |-> "SOL/USDC"]
    /\ direction = "sell"

\* amount_in / 10^9 < amount_out / 10^6
CheaperNormalized(a, b) == a \div 1000 < b

\* C24: for pool SOL/USDC, a swap of SOL for USDC (amount_in the larger
\* number, but the smaller amount once normalized, as 2_000_000_000 in and
\* 40_000_000 out) is classified 'buy', and the swap with the two amounts
\* exchanged is classified 'sell'.
C24_BuyAndSell ==
    (phase = "classified" /\ decoded_log.pool_type = "SOL/USDC")
        => /\ (/\ decoded_log.amount_in > decoded_log.amount_out
               /\ CheaperNormalized(decoded_log.amount_in, decoded_log.amount_out))
                => direction = "buy"
           /\ (/\ decoded_log.amount_out > decoded_log.amount_in
               /\ CheaperNormalized(decoded_log.amount_out, decoded_log.amount_in))
                => direction = "sell"

C26_RefreshAtMostOncePerMinute ==
    Len(refreshes) = 2 => refreshes[2] - refreshes[1] > 60

\* the reserves were read for a first swap and read again for a later one
C26_Witness ==
    /\ Len(refreshes) = 2
    /\ total_requests = 2
    /\ phase = "idle"

\* the requests granted less than window_seconds before `now`
RecentGrants(now) ==
    {i \in 1..Len(granted) :
        now - granted[i] < rate_limiter.window_seconds * TicksPerSecond}

\* C27: RateLimiter.check_rate_limit returns True while fewer than
\* max_requests granted requests are younger than window_seconds and False
\* for every further call, so it returns True again as soon as the oldest
\* of them is window_seconds old; a call that returns False records no
\* timestamp, and one that returns True records its own time.
C27_SlidingWindow ==
    [][limiter_calls' # limiter_calls =>
        /\ allowed'.rec = (Cardinality(RecentGrants(limiter_time))
                                < rate_limiter.max_requests)
        /\ ~allowed'.rec =>
                \A i \in 1..Len(rate_limiter'.request_timestamps) :
                    rate_limiter'.request_timestamps[i] # limiter_time
                    \/ \E j \in 1..Len(rate_limiter.request_timestamps) :
                            rate_limiter.request_timestamps[j] = limiter_time
        /\ ~allowed'.rec =>
                Len(rate_limiter'.request_timestamps)
                    <= Len(rate_limiter.request_timestamps)
        /\ allowed'.rec =>
                rate_limiter'.request_timestamps[
                    Len(rate_limiter'.request_timestamps)] = limiter_time]_vars

\* ten requests, five more half a second later, a sixteenth turned away,
\* and a request granted again one second after the first ten
C27_Witness ==
    /\ rate_limiter.max_requests = 15
    /\ Len(granted) = 16
    /\ granted[10] = granted[1]
    /\ granted[11] = granted[1] + 5
    /\ granted[16] = granted[1] + 10
    /\ limiter_calls = 17
    /\ allowed = Return(TRUE)

\* C28: once more than window_seconds have passed since the last granted
\* request, the RateLimiter holds no recorded timestamp, before any further
\* call is made.
C28_CleanedWithoutCall ==
    (/\ phase = "limiting"
     /\ granted # <<>>
     /\ limiter_time - granted[Len(granted)]
            > rate_limiter.window_seconds * TicksPerSecond)
        => rate_limiter.request_timestamps = <<>>

\* C29: while dry_run is true, process_log calls neither
\* build_sandwich_transactions nor execute_sandwich, whatever the swap and
\* whatever the simulation returned.
C29_DryRunNeverDispatches ==
    (phase = "dispatched" /\ dry_run)
        => tx_params = NotRun /\ execution = NotRun

\* the dispatch block has run in dry-run mode on a swap above the minimum
\* trade size with a positive simulated profit
C29_Witness ==
    /\ phase = "dispatched"
    /\ dry_run
    /\ decoded_log.amount_in >= min_trade_size
    /\ simulation.kind = "record"
    /\ simulation.rec.net_profit > 0
    /\ tx_params = NotRun

\* C30: _send_transaction terminates whatever the RPC client does: it
\* submits the transaction at most max_retries times, fetches the blockhash
\* at most 3 times per attempt and polls the confirmation at most 3 times
\* per submission, and then returns a signature or None.
C30_SendTerminates ==
    /\ [](/\ send.submissions <= send.max_retries
          /\ send.fetches <= 3
          /\ send.polls <= 3
          /\ send.pc = "done" => send.result.kind \in {"record", "none"})
    /\ <>(send.pc = "done")

\* the call gave up after three submissions, the last one polled three
\* times
C30_Witness ==
    /\ phase = "sending"
    /\ send.pc = "done"
    /\ send.result = None
    /\ send.max_retries = 3
    /\ send.submissions = 3
    /\ send.polls = 3

\* C31: process_log never raises to the monitor loop: whatever the message
\* (malformed JSON, missing envelope fields, undecodable payload, missing
\* or zero reserves, failing refresh, failing evaluation) the call returns.
C31_ProcessLogNeverRaises ==
    returned # "raise"

\* a call has ended in the handler after the evaluation of a swap failed,
\* and the next message was taken
C31_Witness ==
    /\ phase = "idle"
    /\ total_opportunities = 1
    /\ total_requests = 2
    /\ returned = "None"

\* s is what is left of t after dropping entries from its front
IsSuffix(s, t) ==
    Len(s) <= Len(t) /\ s = SubSeq(t, Len(t) - Len(s) + 1, Len(t))

\* C32: a message that arrives while the rate gate is at its limit is
\* dropped, not queued: process_log returns None with nothing decoded,
\* refreshed or evaluated and nothing kept for later, and apart from the
\* expiry of old timestamps the only field of the monitor that changes is
\* rate_limit_hits.
C32_DroppedAtLimit ==
    [][rate_limit_hits' # rate_limit_hits =>
        /\ rate_limit_hits' = rate_limit_hits + 1
        /\ returned' = "None"
        /\ phase' = "idle"
        /\ lines' = <<>>
        /\ decoded' = NotRun
        /\ simulation' = NotRun
        /\ IsSuffix(request_timestamps', request_timestamps)
        /\ UNCHANGED <<total_requests, last_rate_log, pool_reserves_cache,
                       last_pool_update, refreshes, total_opportunities,
                       total_profit, tx_params, execution, connVars>>]_vars

\* fifteen messages were admitted within the second and a message with a
\* payload line has just been turned away
C32_Witness ==
    /\ phase = "idle"
    /\ rate_limit_hits > 0
    /\ carries_payload
    /\ decoded = NotRun
    /\ Len(request_timestamps) = MAX_REQUESTS_PER_SECOND
    /\ total_requests = MAX_REQUESTS_PER_SECOND
    /\ ticks = 0
    /\ clock = request_timestamps[MAX_REQUESTS_PER_SECOND] + 1

\* the length of a payload once a leading 0x03 byte is dropped
StrippedLength(data) ==
    IF Len(data) > 0 /\ data[1] = 3 THEN Len(data) - 1 ELSE Len(data)

\* C33: for every input whose base64 decoding succeeds, decode_ray_log
\* returns a record exactly when the payload, a leading 0x03 byte dropped,
\* is a multiple of 4 bytes long and at least 12 bytes; for every other
\* length (0, 4, 8, or not divisible by 4) it returns None.
C33_RecordIffLength ==
    phase = "decoded" =>
        LET b64 == b64decode(strip_prefix(ray_log)) IN
        b64.ok =>
            LET len == StrippedLength(b64.data) IN
            IF len % 4 = 0 /\ len >= 12 THEN decoded.kind = "record"
            ELSE decoded = None

\* one u64 followed by four more bytes: the shortest payload with a record
C33_Witness ==
    /\ phase = "decoded"
    /\ b64decode(strip_prefix(ray_log)).ok
    /\ StrippedLength(b64decode(strip_prefix(ray_log)).data) = 12
    /\ fixture.first = 1000000000
    /\ decoded.kind = "record"
    /\ decoded.rec.amount_in = 1000000000

\* C34: identify_pool returns a key of POOL_CONFIGS for every pool_id, and
\* every record decode_ray_log returns carries pool_type "SOL/USDC"
\* whatever pool_id the payload contains.
C34_PoolTypeConstant ==
    (phase = "decoded" /\ decoded.kind = "record") =>
        /\ decoded.rec.pool_type = "SOL/USDC"
        /\ "pool_id" \in DOMAIN decoded.rec =>
                identify_pool(decoded.rec.pool_id) \in DOMAIN POOL_CONFIGS

\* a record decoded from a payload whose pool_id is not zero
C34_Witness ==
    /\ phase = "decoded"
    /\ decoded.kind = "record"
    /\ "pool_id" \in DOMAIN decoded.rec
    /\ decoded.rec.pool_id > 0
    /\ decoded.rec.pool_type = "SOL/USDC"

\* C35: the reserve cache entry of a pool is written only by
\* update_pool_reserves after a successful account read: every step that
\* changes the cache is the return of get_account_info with account data,
\* and the entry written holds the reserves of that data stamped with the
\* time of the return; a failed read (exception or empty response) leaves
\* the cache as it was, and no step removes an entry.
C35_CacheWrittenOnlyByRead ==
    [][/\ DOMAIN pool_reserves_cache \subseteq DOMAIN pool_reserves_cache'
       /\ pool_reserves_cache' # pool_reserves_cache =>
            /\ phase = "reading"
            /\ \A p \in DOMAIN pool_reserves_cache' :
                    \/ /\ p \in DOMAIN pool_reserves_cache
                       /\ pool_reserves_cache'[p] = pool_reserves_cache[p]
                    \/ \E outcome \in ReaderOutcomes :
                        /\ outcome.kind = "data"
                        /\ pool_reserves_cache'[p] =
                            [token_a |-> from_bytes(Slice(outcome.data, 64, 72)),
                             token_b |-> from_bytes(Slice(outcome.data, 72, 80)),
                             last_update |-> clock']]_vars

\* the reserves were read twice and the entry is older than the second
\* read: the second read failed and the entry of the first one is still there
C35_Witness ==
    /\ phase = "idle"
    /\ Len(refreshes) = 2
    /\ "SOL/USDC" \in DOMAIN pool_reserves_cache
    /\ pool_reserves_cache["SOL/USDC"].last_update < refreshes[2]
    /\ pool_reserves_cache["SOL/USDC"].token_a = 1000000000

\* C36: in every reachable state of monitor_swaps connection_retry_delay is
\* one of 5, 10, 20, 40 or 60 seconds: never below 5, never above 60.
C36_DelayValues ==
    connection_retry_delay \in {5, 10, 20, 40, 60}

\* five attempts in a row were refused: the fifth doubling was capped
C36_Witness ==
    /\ attempts = 5
    /\ failed_attempts = 5
    /\ connection_retry_delay = 60

\* C37: monitor_swaps starts a connection attempt only while
\* subscription_active is false and only when at least
\* connection_retry_delay seconds have passed since the previous attempt
\* started; the attempt is stamped with the time it starts.
C37_AttemptGuard ==
    [][attempts' # attempts =>
        /\ ~subscription_active
        /\ clock - last_connection_attempt >= connection_retry_delay
        /\ last_connection_attempt' = clock]_vars

\* a second attempt was refused and a third started 20 seconds after it
C37_Witness ==
    /\ attempts = 3
    /\ failed_attempts >= 2
    /\ last_connection_attempt >= 1030

\* C38: execute_sandwich hands the back-run transaction to
\* send_transaction only after confirm_transaction has returned for the
\* front-run; while the front-run is not confirmed the back-run is never
\* submitted.
C38_BackAfterFrontConfirmed ==
    "back" \in sandwich.submitted => "front" \in sandwich.confirmed

\* both transactions were submitted and confirmed, and the call returned the
\* two signatures
C38_Witness ==
    /\ sandwich.pc = "done"
    /\ sandwich.submitted = {"front", "back"}
    /\ sandwich.confirmed = {"front", "back"}
    /\ sandwich.result.kind = "record"

\* C39: execute_sandwich is all-or-nothing: whenever it returns None,
\* neither transaction of the pair has been confirmed.
C39_AllOrNothing ==
    (sandwich.pc = "done" /\ sandwich.result = None) =>
        sandwich.confirmed = {}

\* the requests granted in the window_seconds that end with request i
GrantsInWindow(i) ==
    {j \in 1..Len(granted) :
        /\ granted[j] <= granted[i]
        /\ granted[i] - granted[j] < rate_limiter.window_seconds * TicksPerSecond}

\* C40: a RateLimiter admits at most max_requests requests in any window of
\* window_seconds through async_wait_if_needed, also when several tasks
\* await it on the same limiter and suspend at its sleep.
C40_AtMostMaxPerWindow ==
    phase = "awaiting" =>
        \A i \in 1..Len(granted) :
            Cardinality(GrantsInWindow(i)) <= rate_limiter.max_requests

====
